---------------------------- MODULE Spec2Model ----------------------------
(***************************************************************************)
(* A model of the packed integer vector (int_vector), its memory manager   *)
(* and the two constant-time rank indices (rank_support_v, rank_support_v5)*)
(* of sdsl-lite.                                                           *)
(*                                                                         *)
(* A 64-bit word is modelled as the set of the positions of its 1 bits     *)
(* (bit 0 is the least significant one), so that every shift, mask and     *)
(* population count of the code is computed on all 64 bits.  Small numbers *)
(* (sizes, counts) are naturals.                                           *)
(***************************************************************************)
EXTENDS Naturals, Integers, Sequences, FiniteSets, TLC

VARIABLES
    tw,      \* t_width, the static width of the vector type (0: runtime width)
    v,       \* the vector: m_size, m_capacity, m_data, m_width
    lst,     \* the abstract list the vector is compared with
    junk,    \* what uninitialised heap memory holds in this run
    exc,     \* "none", or the exception that left the last call
    ops,     \* number of operations performed so far
    last,    \* what the last operation was, with its arguments
    stream,  \* the serialized form written by serialize()
    rk,      \* the rank index under test and the position of the test loop
    u,       \* a second vector, where an operation takes two
    tw2,     \* the static width of the type of the second vector
    mem      \* the allocator: the addresses of the buffers, the bytes accounted

vars == <<tw, v, lst, junk, exc, ops, last, stream, rk, u, tw2, mem>>

---------------------------------------------------------------------------
(* Bounds of the model *)

\* number of operations applied to a vector after its construction
MaxOps == 2
\* largest number of bits of a vector at its construction
MaxBits == 130
\* number of 64-bit words of the longest vector of the rank test
RankWords == 66
\* number of words serialize() and load() move in one chunk; it stands for
\* conf::SDSL_BLOCK_SIZE, scaled to the vectors of the model
SDSL_BLOCK_SIZE == 2
\* number of threads that call memory_monitor::record
NThreads == 2
\* number of record calls of one thread
MaxCalls == 2
\* number of operations on a vector whose memory is accounted
MaxMemOps == 3
\* number of calls of the memory monitor by one thread
MaxMonOps == 5
\* number of operations on a pair of vectors after the first is constructed
MaxPairOps == 3
\* number of push_back calls of a growth run
MaxPush == 70

---------------------------------------------------------------------------
(* Words *)

Bit == 0..63

Zero == {}

all_set == Bit

lo_set(n) == {b \in Bit : b < n}

band(a, b) == a \cap b

bor(a, b) == a \cup b

bxor(a, b) == (a \ b) \cup (b \ a)

bnot(a) == Bit \ a

shl(a, k) == {b + k : b \in {c \in a : c + k <= 63}}

shr(a, k) == {b - k : b \in {c \in a : c >= k}}

cnt(a) == Cardinality(a)

\* the word holding the number n (n < 2^31)
ToWord(n) == {b \in 0..30 : (n \div (2 ^ b)) % 2 = 1}

RECURSIVE SumBits(_)
SumBits(a) == IF a = {} THEN 0
              ELSE LET b == CHOOSE x \in a : TRUE IN (2 ^ b) + SumBits(a \ {b})

\* the number a word holds (the word must be below 2^31)
ToNat(a) == SumBits(a)

NULL == <<>>

\* F applied to the value of e
Eval(e, F(_)) == CHOOSE r \in {F(x) : x \in {e}} : TRUE


---------------------------------------------------------------------------
(* Raw bit fields (bits::read_int, bits::write_int) *)

\* word k (0-based) of a buffer
WordAt(data, k) == data[k + 1]

SetWord(data, k, w) == [data EXCEPT ![k + 1] = w]

\* the len bits starting at bit offset of word wi; the field may continue in
\* word wi+1, whose low bits become the high bits of the result
read_int(data, wi, offset, len) ==
    LET w1 == shr(WordAt(data, wi), offset)
    IN IF offset + len > 64
       THEN bor(w1, shl(band(WordAt(data, wi + 1), lo_set((offset + len) % 64)),
                        64 - offset))
       ELSE band(w1, lo_set(len))

\* store the low len bits of x at bit offset of word wi, splitting the field
\* over word wi and word wi+1 when it does not fit
write_int(data, wi, x, offset, len) ==
    LET x1 == band(x, lo_set(len))
    IN IF offset + len < 64
       THEN SetWord(data, wi,
                bor(band(WordAt(data, wi),
                         bor(shl(all_set, offset + len), lo_set(offset))),
                    shl(x1, offset)))
       ELSE LET d1 == SetWord(data, wi,
                         bor(band(WordAt(data, wi), lo_set(offset)), shl(x1, offset)))
                off2 == (offset + len) % 64
            IN IF off2 # 0
               THEN SetWord(d1, wi + 1,
                        bor(band(WordAt(d1, wi + 1), bnot(lo_set(off2))),
                            shr(x1, len - off2)))
               ELSE d1

---------------------------------------------------------------------------
(* int_vector: observers *)

bit_size(vec) == vec.m_size

bit_capacity(vec) == vec.m_capacity

size(vec) == vec.m_size \div vec.m_width

capacity(vec) == vec.m_capacity \div vec.m_width

empty(vec) == vec.m_size = 0

bit_data_size(vec) == (vec.m_size + 63) \div 64

\* number of 64-bit words of the buffer the vector holds (0 for no buffer)
AllocWords(vec) == IF vec.m_data = NULL THEN 0 ELSE Len(vec.m_data)

get_int(vec, idx, len) == read_int(vec.m_data, idx \div 64, idx % 64, len)

set_int(vec, idx, x, len) ==
    [vec EXCEPT !.m_data = write_int(vec.m_data, idx \div 64, x, idx % 64, len)]

\* operator[] const: element idx
Get(vec, idx) == get_int(vec, idx * vec.m_width, vec.m_width)

\* operator[] followed by an assignment through the reference proxy
Put(vec, idx, x) ==
    LET i == idx * vec.m_width
    IN [vec EXCEPT !.m_data = write_int(vec.m_data, i \div 64, x, i % 64, vec.m_width)]

\* the const iterator read without the mask on the part taken from the second
\* word
ConstIterDeref_unmasked(vec, idx) ==
    LET t        == idx * vec.m_width
        m_word   == t \div 64
        m_offset == t % 64
        m_len    == vec.m_width
    IN IF m_offset + m_len <= 64
       THEN band(shr(WordAt(vec.m_data, m_word), m_offset), lo_set(m_len))
       ELSE bor(shr(WordAt(vec.m_data, m_word), m_offset),
                shl(WordAt(vec.m_data, m_word + 1), 64 - m_offset))

\* *(cbegin() + idx): the const iterator holds the word and the offset of the
\* element and reads it itself
ConstIterDeref(vec, idx) ==
    LET t        == idx * vec.m_width
        m_word   == t \div 64
        m_offset == t % 64
        m_len    == vec.m_width
    IN IF m_offset + m_len <= 64
       THEN band(shr(WordAt(vec.m_data, m_word), m_offset), lo_set(m_len))
       ELSE bor(shr(WordAt(vec.m_data, m_word), m_offset),
                shl(band(WordAt(vec.m_data, m_word + 1), lo_set((m_offset + m_len) % 64)),
                    64 - m_offset))

\* the elements of the vector, as a list
Elements(vec) == [i \in 1..size(vec) |-> Get(vec, i - 1)]

\* int_vector_trait<t_width>::set_width
set_width(t_width, new_width, width) ==
    IF t_width = 0
    THEN IF 0 < new_width /\ new_width <= 64 THEN new_width ELSE 64
    ELSE width

---------------------------------------------------------------------------
(* memory_manager *)

\* realloc: the first words keep their content, the others are uninitialised
realloc_mem(data, bytes) ==
    LET n == bytes \div 8
    IN IF n = 0 THEN NULL
       ELSE [i \in 1..n |-> IF data # NULL /\ i <= Len(data) THEN data[i] ELSE junk]

\* whether memory_manager::resize(vec, sz) asks the allocator for memory
mm_reallocates(vec, sz) ==
    ((vec.m_size + 63) \div 64) * 8 # ((sz + 63) \div 64) * 8 \/ vec.m_data = NULL

\* the bytes memory_manager counts for a vector of `bits` bits
bytes_of(bits) == ((bits + 63) \div 64) * 8

\* what memory_manager::resize(vec, sz) reports to memory_monitor::record:
\* new_size_in_bytes - old_size_in_bytes if they differ (0: no report)
mm_records(vec, sz) == bytes_of(sz) - bytes_of(vec.m_size)

\* what memory_manager::clear(vec) reports: minus the bytes of the bit length
mm_clear_records(vec) == 0 - bytes_of(vec.m_size)

\* memory_manager::resize with an allocator that delivers
mm_resize(vec, sz) ==
    LET v1 == [vec EXCEPT !.m_size = sz]
    IN IF mm_reallocates(vec, sz)
       THEN LET allocated_bytes == ((sz + 64) \div 64) * 8
                v2 == [v1 EXCEPT !.m_data = realloc_mem(vec.m_data, allocated_bytes)]
                v3 == IF bit_size(v2) < capacity(v2)
                      THEN [v2 EXCEPT !.m_data =
                               write_int(v2.m_data, bit_size(v2) \div 64, Zero,
                                         bit_size(v2) % 64,
                                         (capacity(v2) - bit_size(v2)) % 256)]
                      ELSE v2
            IN IF v3.m_size % 64 = 0
               THEN [v3 EXCEPT !.m_data = SetWord(v3.m_data, v3.m_size \div 64, Zero)]
               ELSE v3
       ELSE v1

\* memory_manager::resize when realloc returns nullptr: the state in which
\* std::bad_alloc leaves the vector
mm_resize_failed(vec, sz) == [vec EXCEPT !.m_size = sz, !.m_data = NULL]

---------------------------------------------------------------------------
(* int_vector: resizing *)

\* smallest k with 1.5^k >= r, i.e. ceil(log(r) / log(1.5))
RECURSIVE GrowthExp(_, _)
GrowthExp(r, k) == IF (3 ^ k) >= r * (2 ^ k) THEN k ELSE GrowthExp(r, k + 1)

\* the capacity amortized_resize asks for
new_capacity(vec, sz) ==
    LET bsz          == sz * vec.m_width
        tmp_capacity == IF vec.m_capacity = 0 THEN 64 ELSE vec.m_capacity
        ratio        == (bsz + tmp_capacity - 1) \div tmp_capacity
    IN IF ratio = 0 THEN 0
       ELSE LET k == GrowthExp(ratio, 0)
            IN (tmp_capacity * (3 ^ k) + (2 ^ k) - 1) \div (2 ^ k)

amortized_resize(vec, sz) ==
    LET bsz == sz * vec.m_width
        v1  == IF bsz > vec.m_capacity \/ vec.m_data = NULL
               THEN mm_resize(vec, new_capacity(vec, sz))
               ELSE vec
    IN [v1 EXCEPT !.m_size = sz * vec.m_width]

\* whether amortized_resize(sz) makes memory_manager::resize ask the allocator
\* for memory
amortized_reallocates(vec, sz) ==
    /\ sz * vec.m_width > vec.m_capacity \/ vec.m_data = NULL
    /\ mm_reallocates(vec, new_capacity(vec, sz))

\* whether the assertion at the head of bit_resize(size) fails (in a build
\* that keeps assertions)
bit_resize_asserts(vec, sz) == sz % vec.m_width # 0

\* bit_resize(size)
bit_resize(vec, sz) ==
    LET v1 == IF sz > vec.m_capacity THEN mm_resize(vec, sz) ELSE vec
    IN [v1 EXCEPT !.m_size = sz]

\* util::set_to_value(v, k, it): every element from index first on is set to
\* k; no other bit of the buffer is written
FillFrom(vec, first, k) ==
    LET fill(x) ==
            IF first >= size(x) THEN x
            ELSE LET w  == x.m_width
                     k1 == band(k, lo_set(w))
                     lo == first * w
                     hi == size(x) * w
                 IN [x EXCEPT !.m_data =
                        [j \in 1..Len(x.m_data) |->
                            IF hi <= 64 * (j - 1) \/ lo >= 64 * j THEN x.m_data[j]
                            ELSE {b \in Bit :
                                    LET g == 64 * (j - 1) + b
                                    IN IF lo <= g /\ g < hi
                                       THEN (g % w) \in k1
                                       ELSE b \in x.m_data[j]}]]
    IN Eval(vec, fill)

set_to_value(vec, k) == FillFrom(vec, 0, k)

\* bit_resize(size, value) that sets every element, not only the new ones
bit_resize_fill_all(vec, sz, value) == set_to_value(bit_resize(vec, sz), value)

\* bit_resize(size, value)
bit_resize_value(vec, sz, value) ==
    LET old_size == vec.m_size
        v1       == bit_resize(vec, sz)
    IN FillFrom(v1, old_size \div v1.m_width, value)

\* resize(size, value)
resize(vec, sz, value) == bit_resize_value(vec, sz * vec.m_width, value)

\* int_vector(size, default_value, int_width)
int_vector(t_width, sz, default_value, int_width) ==
    LET v0 == [m_size |-> 0, m_capacity |-> 0, m_data |-> NULL,
               m_width |-> set_width(t_width, int_width, t_width)]
    IN set_to_value(resize(v0, sz, Zero), default_value)

---------------------------------------------------------------------------
(* int_vector: sequence edits *)

\* std::copy(begin() + first, begin() + lst_, begin() + d_first): the elements
\* are assigned one by one in ascending order (the first half of the range,
\* then the second half)
RECURSIVE Copy(_, _, _, _)
Copy(vec, first, lst_, d_first) ==
    IF first >= lst_ THEN vec
    ELSE IF lst_ = first + 1 THEN Put(vec, d_first, Get(vec, first))
    ELSE LET mid     == (first + lst_) \div 2
             rest(x) == Copy(x, mid, lst_, d_first + (mid - first))
         IN Eval(Copy(vec, first, mid, d_first), rest)

\* std::copy_backward(begin() + first, begin() + lst_, begin() + d_last): the
\* elements are assigned one by one in descending order
RECURSIVE CopyBackward(_, _, _, _)
CopyBackward(vec, first, lst_, d_last) ==
    IF first >= lst_ THEN vec
    ELSE IF lst_ = first + 1 THEN Put(vec, d_last - 1, Get(vec, first))
    ELSE LET mid     == (first + lst_) \div 2
             rest(x) == CopyBackward(x, first, mid, d_last - (lst_ - mid))
         IN Eval(CopyBackward(vec, mid, lst_, d_last), rest)

\* std::fill_n(begin() + first, n, value)
RECURSIVE FillN(_, _, _, _)
FillN(vec, first, n, value) ==
    IF n = 0 THEN vec ELSE FillN(Put(vec, first, value), first + 1, n - 1, value)

push_back(vec, value) ==
    LET v1 == amortized_resize(vec, size(vec) + 1)
    IN Put(v1, size(v1) - 1, value)

pop_back(vec) == resize(vec, size(vec) - 1, Zero)

\* insert that moves the elements with std::copy, in ascending order
insert_copy_forward(vec, pos, n, value) ==
    LET v1 == amortized_resize(vec, size(vec) + n)
        v2 == Copy(v1, pos, size(v1) - n, pos + n)
    IN FillN(v2, pos, n, value)

\* insert(it, n, value), it = cbegin() + pos
insert(vec, pos, n, value) ==
    LET v1 == amortized_resize(vec, size(vec) + n)
        v2 == CopyBackward(v1, pos, size(v1) - n, size(v1))
    IN FillN(v2, pos, n, value)

\* erase(it), it = cbegin() + pos
erase(vec, pos) ==
    LET v1 == Copy(vec, pos + 1, size(vec), pos)
    IN resize(v1, size(v1) - 1, Zero)

\* erase(first, last)
erase_range(vec, first, lst_) ==
    LET v1 == Copy(vec, lst_, size(vec), first)
    IN resize(v1, size(v1) - (lst_ - first), Zero)

clear(vec) == [vec EXCEPT !.m_size = 0]

shrink_to_fit(vec) == mm_resize(vec, vec.m_size)

\* reserve(capacity)
reserve(vec, cap) ==
    IF cap * vec.m_width > vec.m_capacity THEN mm_resize(vec, cap * vec.m_width) ELSE vec

\* a width() that stores the new width whatever the type of the vector
width_any_type(t_width, vec, new_width) ==
    [vec EXCEPT !.m_width = set_width(0, new_width, vec.m_width)]

\* width(new_width)
width(t_width, vec, new_width) ==
    [vec EXCEPT !.m_width = set_width(t_width, new_width, vec.m_width)]

\* apply f to the first n words of the buffer
MapWords(vec, n, f(_, _)) ==
    IF n = 0 THEN vec
    ELSE [vec EXCEPT !.m_data =
             [j \in 1..Len(vec.m_data) |-> IF j <= n THEN f(j, vec.m_data[j])
                                           ELSE vec.m_data[j]]]

\* flip() of a bit_vector
flip(vec) ==
    LET f(j, w) == bnot(w)
    IN IF ~empty(vec) THEN MapWords(vec, bit_data_size(vec), f) ELSE vec

\* operator&=, operator|=, operator^=
and_assign(vec, other) ==
    LET f(j, w) == band(w, other.m_data[j]) IN MapWords(vec, bit_data_size(vec), f)

or_assign(vec, other) ==
    LET f(j, w) == bor(w, other.m_data[j]) IN MapWords(vec, bit_data_size(vec), f)

xor_assign(vec, other) ==
    LET f(j, w) == bxor(w, other.m_data[j]) IN MapWords(vec, bit_data_size(vec), f)

---------------------------------------------------------------------------
(* int_vector: serialization, copies *)

\* write_header: width in the top 8 bits, the size below
write_header(sz, int_width) == bor(shl(ToWord(int_width), 56), ToWord(sz))

\* words first .. first+n-1 of a buffer
Words(data, first, n) == [k \in 1..n |-> WordAt(data, first + k - 1)]

\* write_data: the data words, SDSL_BLOCK_SIZE words at a time
RECURSIVE WriteChunks(_, _, _)
WriteChunks(vec, idx, out) ==
    IF idx + SDSL_BLOCK_SIZE < bit_data_size(vec)
    THEN WriteChunks(vec, idx + SDSL_BLOCK_SIZE,
                     out \o Words(vec.m_data, idx, SDSL_BLOCK_SIZE))
    ELSE out \o Words(vec.m_data, idx, bit_data_size(vec) - idx)

\* a writer that also stores the padding word that follows the data words
write_data_padded(vec) == WriteChunks(vec, 0, <<>>) \o <<Zero>>

write_data(vec) == WriteChunks(vec, 0, <<>>)

serialize(vec) == <<write_header(vec.m_size, vec.m_width)>> \o write_data(vec)

\* read_header: the size and the width stored in the first word
header_size(in) == ToNat(band(in[1], lo_set(56)))

header_width(in) == ToNat(shr(in[1], 56))

read_header(t_width, vec, in) ==
    IF t_width = 0 THEN [vec EXCEPT !.m_width = header_width(in)] ELSE vec

\* the reading loop of load: words of the stream go to the buffer, chunk by chunk
RECURSIVE ReadChunks(_, _, _)
ReadChunks(vec, idx, in) ==
    LET take(n) == [vec EXCEPT !.m_data =
                       [j \in 1..Len(vec.m_data) |->
                           IF idx < j /\ j <= idx + n THEN in[1 + j] ELSE vec.m_data[j]]]
    IN IF idx + SDSL_BLOCK_SIZE < bit_data_size(vec)
       THEN ReadChunks(take(SDSL_BLOCK_SIZE), idx + SDSL_BLOCK_SIZE, in)
       ELSE IF bit_data_size(vec) - idx = 0 THEN vec
            ELSE take(bit_data_size(vec) - idx)

\* load that does not take the width from the header
load_skip_header(t_width, vec, in) ==
    LET v2 == bit_resize(vec, header_size(in))
    IN ReadChunks(v2, 0, in)

load(t_width, vec, in) ==
    LET v1 == read_header(t_width, vec, in)
        v2 == bit_resize(v1, header_size(in))
    IN ReadChunks(v2, 0, in)

\* memcpy(m_data, src, n * 8)
memcpy(data, src, n) ==
    IF n = 0 THEN data
    ELSE [j \in 1..Len(data) |-> IF j <= n THEN src[j] ELSE data[j]]

\* int_vector(const int_vector& other)
copy_construct(t_width, other) ==
    LET v0 == [m_size |-> 0, m_capacity |-> 0, m_data |-> NULL, m_width |-> other.m_width]
        v1 == width(t_width, v0, other.m_width)
        v2 == resize(v1, size(other), Zero)
    IN IF other.m_size > 0
       THEN [v2 EXCEPT !.m_data = memcpy(v2.m_data, other.m_data, bit_data_size(v2))]
       ELSE v2

---------------------------------------------------------------------------
(* Equality *)

\* a comparison that does not mask the last word
equal_same_type_unmasked(this, other) ==
    /\ bit_size(this) = bit_size(other)
    /\ empty(this) \/ \A i \in 0..(bit_data_size(this) - 1) :
                          WordAt(other.m_data, i) = WordAt(this.m_data, i)

\* operator==(const int_vector<t_width>& other): the words before the last
\* one are compared whole, the last one under the mask lo_set[l]
equal_same_type(this, other) ==
    IF bit_size(this) # bit_size(other) THEN FALSE
    ELSE IF empty(this) THEN TRUE
    ELSE LET n == bit_data_size(this)
             l == (64 - (n * 64 - this.m_size)) % 256
         IN /\ \A i \in 0..(n - 2) :
                  WordAt(other.m_data, i) = WordAt(this.m_data, i)
            /\ band(WordAt(other.m_data, n - 1), lo_set(l))
                  = band(WordAt(this.m_data, n - 1), lo_set(l))

\* operator==(const int_vector<t_width2>& other), t_width2 # t_width: the
\* elements are compared one by one
equal_other_type(this, other) ==
    IF size(this) # size(other) THEN FALSE
    ELSE IF empty(this) THEN TRUE
    ELSE \A i \in 0..(size(this) - 1) : Get(other, i) = Get(this, i)

\* this == other, for this of type int_vector<t_width> and other of type
\* int_vector<t_width2>: the overload the compiler selects
equal(t_width, this, t_width2, other) ==
    IF t_width = t_width2 THEN equal_same_type(this, other)
    ELSE equal_other_type(this, other)

---------------------------------------------------------------------------
(* Moves and copy assignment *)

\* a move that leaves its source as it was
move_keep_source(this, other) == [target |-> other, source |-> other]

\* int_vector(int_vector&& other), and operator=(int_vector&& other) on a
\* vector that is not other: the four fields go to the target, the source is
\* left without buffer; the buffer the target held before is not released
move(this, other) ==
    [target |-> [m_size |-> other.m_size, m_capacity |-> other.m_capacity,
                 m_data |-> other.m_data, m_width |-> other.m_width],
     source |-> [other EXCEPT !.m_data = NULL, !.m_size = 0, !.m_capacity = 0]]

\* operator=(const int_vector& other) on a vector that is not other:
\* int_vector tmp(other); *this = std::move(tmp)
copy_assign(t_width, this, other) == move(this, copy_construct(t_width, other)).target

---------------------------------------------------------------------------
(* Bit-pattern counting kernel (rank_support_trait) *)

\* the patterns; "ab" is an a immediately followed by a b
Pat == {"0", "1", "10", "01", "00", "11"}

pat_len(p) == IF p \in {"0", "1"} THEN 1 ELSE 2

\* the implicit symbol before bit 0 of the vector
init_carry(p) == IF p \in {"00", "01"} THEN 1 ELSE 0

\* the carry a word hands to the next one: its bit 63
get_carry(w) == IF 63 \in w THEN 1 ELSE 0

\* (w << 1) | carry
Shifted(w, carry) == bor(shl(w, 1), IF carry = 1 THEN {0} ELSE {})

\* the marker word: bit b is set iff an occurrence of p ends at bit b of w
Marker(p, w, carry) ==
    CASE p = "1"  -> w
      [] p = "0"  -> bnot(w)
      [] p = "10" -> band(bxor(w, Shifted(w, carry)), bnot(w))
      [] p = "01" -> band(bxor(w, Shifted(w, carry)), w)
      [] p = "00" -> bnot(bor(w, Shifted(w, carry)))
      [] p = "11" -> band(w, Shifted(w, carry))

\* args_in_the_word: occurrences in a whole word
args_in_the_word(p, w, carry) == cnt(Marker(p, w, carry))

\* what a read of word k of a buffer delivers: a word behind the end of the
\* buffer delivers whatever the heap holds there
Rd(data, k) == IF data # NULL /\ k < Len(data) THEN data[k + 1] ELSE junk

\* the carry for the word that holds bit idx
CarryAt(p, data, idx) ==
    IF pat_len(p) = 1 THEN 0
    ELSE IF idx > 63 THEN get_carry(Rd(data, (idx \div 64) - 1)) ELSE init_carry(p)

\* a count of the occurrences that START below bit idx of the word
word_rank_by_start(p, data, idx) ==
    cnt(band(Marker(p, Rd(data, idx \div 64), CarryAt(p, data, idx)),
             lo_set((idx % 64) + pat_len(p) - 1)))

\* word_rank: occurrences among the idx mod 64 low bits of the word of bit idx
word_rank(p, data, idx) ==
    cnt(band(Marker(p, Rd(data, idx \div 64), CarryAt(p, data, idx)), lo_set(idx % 64)))

\* full_word_rank: occurrences in the whole word of bit idx
full_word_rank(p, data, idx) ==
    cnt(Marker(p, Rd(data, idx \div 64), CarryAt(p, data, idx)))

\* the words of the vector word_rank and full_word_rank read
TraitReads(p, idx) ==
    {idx \div 64} \cup (IF pat_len(p) = 2 /\ idx > 63 THEN {(idx \div 64) - 1} ELSE {})

---------------------------------------------------------------------------
(* rank_support_v *)

\* the loop of the constructor over the words 1 .. n-1 of the vector
RECURSIVE RsvLoop(_, _, _, _)
RsvLoop(p, data, n, st) ==
    IF st.i >= n THEN st
    ELSE LET st1 == IF st.i % 8 = 0
                    THEN [st EXCEPT
                            !.j = st.j + 2,
                            !.bb = [st.bb EXCEPT
                                      ![st.j + 2] = st.slc,
                                      ![st.j + 3] = ToWord(ToNat(st.bb[st.j + 1]) + st.sum)],
                            !.slc = Zero,
                            !.sum = 0]
                    ELSE [st EXCEPT
                            !.slc = bor(st.slc, shl(ToWord(st.sum), 63 - 9 * (st.i % 8)))]
             w   == WordAt(data, st.i)
         IN RsvLoop(p, data, n,
                    [st1 EXCEPT !.sum = st1.sum + args_in_the_word(p, w, st1.carry),
                                !.carry = get_carry(w),
                                !.i = st.i + 1])

\* rank_support_v(v): m_basic_block, entry k of which is bb[k + 1]
rank_support_v(p, vec) ==
    IF empty(vec) THEN <<Zero, Zero>>
    ELSE LET basic_block_size == (((bit_size(vec) + 63) \div 512) + 1) * 2
             n    == (bit_size(vec) + 63) \div 64
             w0   == WordAt(vec.m_data, 0)
             st0  == [i |-> 1, j |-> 0, bb |-> [k \in 1..basic_block_size |-> Zero],
                      carry |-> get_carry(w0),
                      sum |-> args_in_the_word(p, w0, init_carry(p)), slc |-> Zero]
             st   == RsvLoop(p, vec.m_data, n, st0)
         IN IF st.i % 8 # 0
            THEN [st.bb EXCEPT
                    ![st.j + 2] = bor(st.slc, shl(ToWord(st.sum), 63 - 9 * (st.i % 8)))]
            ELSE [st.bb EXCEPT
                    ![st.j + 2] = st.slc,
                    ![st.j + 3] = ToWord(ToNat(st.bb[st.j + 1]) + st.sum),
                    ![st.j + 4] = Zero]

\* rank(idx) with the block count read through the mask 0xFF
rank_v_mask8(p, bb, data, idx) ==
    LET pp   == 2 * (idx \div 512)
        base == ToNat(bb[pp + 1])
                + ToNat(band(shr(bb[pp + 2], 63 - 9 * ((idx % 512) \div 64)), lo_set(8)))
    IN IF idx % 64 # 0 THEN base + word_rank(p, data, idx) ELSE base

\* rank_support_v::rank(idx)
rank_v(p, bb, data, idx) ==
    LET pp   == 2 * (idx \div 512)
        base == ToNat(bb[pp + 1])
                + ToNat(band(shr(bb[pp + 2], 63 - 9 * ((idx % 512) \div 64)), lo_set(9)))
    IN IF idx % 64 # 0 THEN base + word_rank(p, data, idx) ELSE base

\* the words of the vector rank(idx) reads
rank_v_reads(p, idx) == IF idx % 64 # 0 THEN TraitReads(p, idx) ELSE {}

---------------------------------------------------------------------------
(* rank_support_v5 *)

\* the loop of the constructor over the words 1 .. n-1 of the vector
RECURSIVE Rsv5Loop(_, _, _, _)
Rsv5Loop(p, data, n, st) ==
    IF st.i >= n THEN st
    ELSE LET st1 == IF st.cnt_words = 32
                    THEN [st EXCEPT
                            !.j = st.j + 2,
                            !.bb = [st.bb EXCEPT
                                      ![st.j + 2] = st.slc,
                                      ![st.j + 3] = ToWord(ToNat(st.bb[st.j + 1]) + st.sum)],
                            !.slc = Zero,
                            !.sum = 0,
                            !.cnt_words = 0]
                    ELSE IF st.cnt_words % 6 = 0
                         THEN [st EXCEPT
                                 !.slc = bor(st.slc,
                                             shl(ToWord(st.sum),
                                                 60 - 12 * (st.cnt_words \div 6)))]
                         ELSE st
             w   == WordAt(data, st.i)
         IN Rsv5Loop(p, data, n,
                     [st1 EXCEPT !.sum = st1.sum + args_in_the_word(p, w, st1.carry),
                                 !.carry = get_carry(w),
                                 !.i = st.i + 1,
                                 !.cnt_words = st1.cnt_words + 1])

\* rank_support_v5(v): m_basic_block, entry k of which is bb[k + 1]
rank_support_v5(p, vec) ==
    IF empty(vec) THEN <<Zero, Zero>>
    ELSE LET basic_block_size == (((bit_size(vec) + 63) \div 2048) + 1) * 2
             n    == (bit_size(vec) + 63) \div 64
             w0   == WordAt(vec.m_data, 0)
             st0  == [i |-> 1, j |-> 0, bb |-> [k \in 1..basic_block_size |-> Zero],
                      carry |-> get_carry(w0),
                      sum |-> args_in_the_word(p, w0, init_carry(p)), slc |-> Zero,
                      cnt_words |-> 1]
             st   == Rsv5Loop(p, vec.m_data, n, st0)
             slc2 == IF st.cnt_words % 6 = 0
                     THEN bor(st.slc, shl(ToWord(st.sum), 60 - 12 * (st.cnt_words \div 6)))
                     ELSE st.slc
         IN IF st.cnt_words = 32
            THEN [st.bb EXCEPT
                    ![st.j + 2] = slc2,
                    ![st.j + 3] = ToWord(ToNat(st.bb[st.j + 1]) + st.sum),
                    ![st.j + 4] = Zero]
            ELSE [st.bb EXCEPT ![st.j + 2] = slc2]

\* the loop of rank over the full words of the last block: idx is the last bit
\* of the word to count next
RECURSIVE Rank5Tail(_, _, _, _)
Rank5Tail(p, data, idx, to_do) ==
    IF to_do = 0 THEN 0
    ELSE full_word_rank(p, data, idx) + Rank5Tail(p, data, idx - 64, to_do - 1)

\* rank_support_v5::rank(idx)
rank_v5(p, bb, data, idx) ==
    LET pp    == 2 * (idx \div 2048)
        res   == ToNat(bb[pp + 1])
                 + ToNat(band(shr(bb[pp + 2], 60 - 12 * ((idx % 2048) \div 384)),
                              lo_set(11)))
                 + word_rank(p, data, idx)
        idx1  == idx - (idx % 64)
        to_do == ((idx1 \div 64) % 32) % 6
    IN res + Rank5Tail(p, data, idx1 - 1, to_do)

\* the words of the vector rank(idx) reads
rank_v5_reads(p, idx) ==
    LET idx1  == idx - (idx % 64)
        to_do == ((idx1 \div 64) % 32) % 6
    IN TraitReads(p, idx)
       \cup UNION {TraitReads(p, idx1 - 1 - 64 * t) : t \in 0..(to_do - 1)}

\* t_b, the number that names the pattern in the template arguments
bit_pat(p) ==
    CASE p = "1" -> 1 [] p = "0" -> 0 [] p = "10" -> 10
      [] p = "01" -> 1 [] p = "00" -> 0 [] p = "11" -> 11

\* bvec[k] of a bit_vector
BitOf(vec, k) == IF (k % 64) \in WordAt(vec.m_data, k \div 64) THEN 1 ELSE 0

\* the scan of the test rank_method: whether position j adds one to the count
found(p, vec, j) ==
    /\ j >= pat_len(p) - 1
    /\ \A k \in 0..(pat_len(p) - 1) : BitOf(vec, j - k) = (bit_pat(p) \div (2 ^ k)) % 2

---------------------------------------------------------------------------
(* select_support_trait *)

lo_unset(n) == {b \in Bit : b >= n}

\* bits::sel(w, i): the position of the i-th set bit of w, 1 <= i <= cnt(w)
sel(w, i) == CHOOSE b \in w : Cardinality({c \in w : c <= b}) = i

\* the two symbols of a pattern, in the order they stand in the vector
PatBits(p) ==
    CASE p = "0" -> <<0>> [] p = "1" -> <<1>> [] p = "10" -> <<1, 0>>
      [] p = "01" -> <<0, 1>> [] p = "00" -> <<0, 0>> [] p = "11" -> <<1, 1>>

\* a test that looks at bit i and the bit after it
found_arg_by_start(p, vec, i) ==
    /\ BitOf(vec, i) = PatBits(p)[1]
    /\ pat_len(p) = 2 => i + 1 < vec.m_size /\ BitOf(vec, i + 1) = PatBits(p)[2]

\* found_arg(i, v)
found_arg(p, vec, i) ==
    CASE p = "0"  -> BitOf(vec, i) = 0
      [] p = "1"  -> BitOf(vec, i) = 1
      [] p = "10" -> i > 0 /\ BitOf(vec, i - 1) = 1 /\ BitOf(vec, i) = 0
      [] p = "01" -> i > 0 /\ BitOf(vec, i - 1) = 0 /\ BitOf(vec, i) = 1
      [] p = "00" -> i > 0 /\ BitOf(vec, i - 1) = 0 /\ BitOf(vec, i) = 0
      [] p = "11" -> i > 0 /\ BitOf(vec, i - 1) = 1 /\ BitOf(vec, i) = 1

\* an initial carry that is 0 for every pattern
sel_init_carry_zero(p, data, word_pos) ==
    IF pat_len(p) = 1 \/ word_pos = 0 THEN 0 ELSE get_carry(WordAt(data, word_pos - 1))

\* init_carry(data, word_pos), data the buffer of the vector
sel_init_carry(p, data, word_pos) ==
    IF pat_len(p) = 1 THEN 0
    ELSE IF word_pos # 0 THEN get_carry(WordAt(data, word_pos - 1))
    ELSE IF p \in {"01", "00"} THEN 1 ELSE 0

\* the word ith_arg_pos_in_the_word hands to bits::sel
sel_map(p, w, carry) ==
    CASE p = "0"  -> bnot(w)
      [] p = "1"  -> w
      [] p = "10" -> Marker("10", w, carry)
      [] p = "01" -> Marker("01", w, carry)
      [] p = "00" -> bnot(bor(Shifted(w, carry), w))
      [] p = "11" -> band(Shifted(w, carry), w)

\* a masked count that keeps the bits from offset + 1 on
args_in_the_first_word_above(p, w, offset, carry) ==
    cnt(band(sel_map(p, w, carry), lo_unset(offset + 1)))

\* args_in_the_first_word(w, offset, carry)
args_in_the_first_word(p, w, offset, carry) ==
    CASE p \in {"0", "1", "10", "01"} -> cnt(band(sel_map(p, w, carry), lo_unset(offset)))
      [] p = "00" -> IF offset = 0 THEN args_in_the_word("00", w, carry)
                     ELSE cnt(band(bnot(bor(w, shl(w, 1))), lo_unset(offset)))
      [] p = "11" -> IF offset = 0 THEN args_in_the_word("11", w, carry)
                     ELSE cnt(band(shr(w, offset - 1), shr(w, offset)))

\* ith_arg_pos_in_the_first_word(w, i, offset, carry)
ith_arg_pos_in_the_first_word(p, w, i, offset, carry) ==
    sel(band(sel_map(p, w, carry), lo_unset(offset)), i)

\* ith_arg_pos_in_the_word(w, i, carry)
ith_arg_pos_in_the_word(p, w, i, carry) == sel(sel_map(p, w, carry), i)

---------------------------------------------------------------------------
(* rank_support_v, rank_support_v5: serialize, load, set_vector *)

\* m_basic_block, an int_vector<64> that holds the counters bb
basic_block(bb) ==
    LET b0 == int_vector(64, Len(bb), Zero, 64)
    IN [b0 EXCEPT !.m_data = [k \in 1..Len(b0.m_data) |->
                                 IF k <= Len(bb) THEN bb[k] ELSE b0.m_data[k]]]

\* store_to_file(rs, temp_file); load_from_file(c_rs, temp_file): the counters
\* of c_rs afterwards; c_rs = <<>> is an index constructed over no vector
store_and_load(rs, c_rs) ==
    LET out    == serialize(basic_block(rs))
        target == IF c_rs = <<>> THEN int_vector(64, 0, Zero, 64) ELSE basic_block(c_rs)
        loaded == load(64, target, out)
    IN Words(loaded.m_data, 0, size(loaded))

---------------------------------------------------------------------------
(* Inputs of the operations *)

\* static widths of the vector types of the model (0: the width is chosen at
\* run time); 1 is bit_vector
StaticWidths == {0, 1, 8}

\* widths asked for at the construction of a runtime-width vector
RuntimeWidths == {0, 5, 64}

\* values written: 0, and a value with bits in the low, middle and top part
Vals == {Zero, {0, 2, 63}}

\* what uninitialised memory may hold
Junk == {Zero, all_set}

\* element counts around the first word boundary for elements of w bits
NearBoundary(w) == {n \in 1..(MaxBits \div w) : 64 - w <= n * w /\ n * w <= 64 + w}

Sizes(w) == {0, 1} \cup NearBoundary(w)

\* no rank index is bound to the vector
NoRank == [variant |-> "none"]

\* there is no second vector
NoVector == [variant |-> "none"]

\* the allocator is not observed
NoMem == [variant |-> "none"]

\* the abstract value of an element: x modulo 2^w
Mod(x, w) == band(x, lo_set(w))

\* what a rank query delivers: the value, or, when it reads a word outside the
\* buffer of the vector, either a fault or the value computed from what the
\* heap holds there
RankOutcomes(reads, vec, value) ==
    IF reads \subseteq 0..(AllocWords(vec) - 1)
    THEN {[ok |-> TRUE, value |-> value]}
    ELSE {[ok |-> FALSE, value |-> 0], [ok |-> TRUE, value |-> value]}

\* rs.rank(idx) for the dense and for the sparse index
DenseOutcomes(p, bb, vec, idx) ==
    RankOutcomes(rank_v_reads(p, idx), vec, rank_v(p, bb, vec.m_data, idx))

SparseOutcomes(p, bb, vec, idx) ==
    RankOutcomes(rank_v5_reads(p, idx), vec, rank_v5(p, bb, vec.m_data, idx))

---------------------------------------------------------------------------
(* The vector as a state machine: one vector of static width tw, edited by
   the operations of int_vector; lst is the abstract list the sequence edits
   are compared with, last records the operation just done and what it was
   applied to *)

\* the positions an edit is tried at in a vector of n elements
Positions(n) == {0, n \div 2, n}

\* numbers of copies inserted at once
InsertCounts == {2}

\* sizes asked of resize
ResizeSizes(vec) == {0, size(vec) + 1} \cup NearBoundary(vec.m_width)

\* bit indices and lengths of the raw fields written
FieldStarts == {0, 62}

FieldLens == {3, 64}

\* widths asked of width()
NewWidths == {5, 64}

\* the list with n copies of x put in before position pos (0-based)
ListInsert(l, pos, n, x) ==
    [i \in 1..(Len(l) + n) |->
        IF i <= pos THEN l[i] ELSE IF i <= pos + n THEN x ELSE l[i - n]]

\* the list without the elements at positions first .. lst_-1 (0-based)
ListErase(l, first, lst_) ==
    [i \in 1..(Len(l) - (lst_ - first)) |->
        IF i <= first THEN l[i] ELSE l[i + (lst_ - first)]]

\* the list cut or extended with x to n elements
ListResize(l, n, x) == [i \in 1..n |-> IF i <= Len(l) THEN l[i] ELSE x]

\* int_vector<tw> v(n, x, w)
Init ==
    /\ tw \in StaticWidths
    /\ junk \in Junk
    /\ \E w \in (IF tw = 0 THEN RuntimeWidths ELSE {tw}), x \in Vals :
          \E n \in Sizes(set_width(tw, w, tw)) :
             /\ v = int_vector(tw, n, x, w)
             /\ last = [op |-> "int_vector", n |-> n, x |-> x]
    /\ lst = Elements(v)
    /\ exc = "none"
    /\ ops = 0
    /\ stream = <<>>
    /\ rk = NoRank
    /\ u = NoVector
    /\ tw2 = tw
    /\ mem = NoMem

\* an operation may start: nothing was thrown, no rank index is bound to the
\* vector, and the run is not yet MaxOps operations long
Ready == exc = "none" /\ rk = NoRank /\ ops < MaxOps

\* the operation leaves the vector v2, the abstract list l2 and the record rec
Done(v2, l2, rec) ==
    /\ v' = v2
    /\ lst' = l2
    /\ last' = rec
    /\ ops' = ops + 1
    /\ UNCHANGED <<tw, junk, exc, stream, rk, u, tw2, mem>>

PushBack ==
    /\ Ready
    /\ \E x \in Vals :
          Done(push_back(v, x), Append(lst, Mod(x, v.m_width)),
               [op |-> "push_back", x |-> x])

PopBack ==
    /\ Ready
    /\ size(v) > 0
    /\ Done(pop_back(v), SubSeq(lst, 1, Len(lst) - 1), [op |-> "pop_back"])

\* insert(it, x), it = cbegin() + pos
Insert ==
    /\ Ready
    /\ \E pos \in Positions(size(v)), x \in Vals :
          Done(insert(v, pos, 1, x), ListInsert(lst, pos, 1, Mod(x, v.m_width)),
               [op |-> "insert", pos |-> pos, n |-> 1, x |-> x, pre |-> Elements(v)])

\* insert(it, n, x), it = cbegin() + pos
InsertN ==
    /\ Ready
    /\ \E pos \in {size(v) \div 2}, n \in InsertCounts, x \in Vals :
          Done(insert(v, pos, n, x), ListInsert(lst, pos, n, Mod(x, v.m_width)),
               [op |-> "insert", pos |-> pos, n |-> n, x |-> x, pre |-> Elements(v)])

Erase ==
    /\ Ready
    /\ \E pos \in Positions(size(v)) :
          /\ pos < size(v)
          /\ Done(erase(v, pos), ListErase(lst, pos, pos + 1),
                  [op |-> "erase", pos |-> pos])

EraseRange ==
    /\ Ready
    /\ \E first \in Positions(size(v)) :
          /\ first + 2 <= size(v)
          /\ Done(erase_range(v, first, first + 2), ListErase(lst, first, first + 2),
                  [op |-> "erase_range", pos |-> first])

Resize ==
    /\ Ready
    /\ \E n \in ResizeSizes(v), x \in Vals :
          /\ n <= size(v) => x = Zero
          /\ Done(resize(v, n, x), ListResize(lst, n, Mod(x, v.m_width)),
                  [op |-> "resize", n |-> n, x |-> x, pre |-> Elements(v)])

\* v[i] = x
SetElem ==
    /\ Ready
    /\ size(v) > 0
    /\ \E i \in {0, size(v) - 1}, x \in Vals :
          \E v2 \in {Put(v, i, x)} :
             Done(v2, Elements(v2), [op |-> "set", i |-> i, x |-> x])

\* v.set_int(idx, x, len)
SetInt ==
    /\ Ready
    /\ \E idx \in FieldStarts, len \in FieldLens, x \in Vals :
          /\ idx + len <= v.m_size
          /\ \E v2 \in {set_int(v, idx, x, len)} :
                Done(v2, Elements(v2),
                     [op |-> "set_int", idx |-> idx, len |-> len, x |-> x,
                      pre |-> v.m_data])

\* v.flip() of a bit_vector
Flip ==
    /\ Ready
    /\ tw = 1
    /\ \E v2 \in {flip(v)} : Done(v2, Elements(v2), [op |-> "flip"])

\* the value of the elements of the right operand of a combine operator
Operands == {{0, 2, 63}}

\* the right operand of a combine operator: a vector of the size of v
Operand(x) == int_vector(tw, size(v), x, v.m_width)

\* v &= other
AndAssign ==
    /\ Ready
    /\ \E x \in Operands :
          \E other \in {Operand(x)} :
             /\ bit_size(other) = bit_size(v)
             /\ \E v2 \in {and_assign(v, other)} :
                   Done(v2, Elements(v2), [op |-> "&=", x |-> x])

\* v |= other
OrAssign ==
    /\ Ready
    /\ \E x \in Operands :
          \E other \in {Operand(x)} :
             /\ bit_size(other) = bit_size(v)
             /\ \E v2 \in {or_assign(v, other)} :
                   Done(v2, Elements(v2), [op |-> "|=", x |-> x])

\* v ^= other
XorAssign ==
    /\ Ready
    /\ \E x \in Operands :
          \E other \in {Operand(x)} :
             /\ bit_size(other) = bit_size(v)
             /\ \E v2 \in {xor_assign(v, other)} :
                   Done(v2, Elements(v2), [op |-> "^=", x |-> x])

Reserve ==
    /\ Ready
    /\ \E cap \in {0, 1, size(v) + 1} :
          \E v2 \in {reserve(v, cap)} :
             Done(v2, Elements(v2), [op |-> "reserve", cap |-> cap, pre |-> v])

ShrinkToFit ==
    /\ Ready
    /\ \E v2 \in {shrink_to_fit(v)} : Done(v2, Elements(v2), [op |-> "shrink_to_fit"])

Clear ==
    /\ Ready
    /\ \E v2 \in {clear(v)} : Done(v2, Elements(v2), [op |-> "clear"])

\* the arguments of width(): widths in range, and 0 and 65, which are not
WidthArgs == NewWidths \cup {0, 65}

\* v.width(w)
Width ==
    /\ Ready
    /\ \E w \in WidthArgs :
          \E v2 \in {width(tw, v, w)} :
             Done(v2, Elements(v2), [op |-> "width", w |-> w, pre |-> v])

\* the vector another program stored: n elements of w bits, the first one
\* the complement of the others
Source(n, x, w) ==
    IF n = 0 THEN int_vector(tw, n, x, w)
    ELSE Put(int_vector(tw, n, x, w), 0, bnot(x))

\* element counts of the stored vectors: around the first word boundary, and
\* one that takes more than one chunk to write and to read
SourceSizes(w) ==
    {0} \cup NearBoundary(w) \cup {(64 * (SDSL_BLOCK_SIZE + 1)) \div w + 1}

\* src.serialize(out); v.load(in)
StoreAndLoad ==
    /\ Ready
    /\ \E w \in (IF tw = 0 THEN NewWidths ELSE {tw}) :
          \E n \in SourceSizes(w) :
             \E src \in {Source(n, {0, 2, 63}, w)} :
                /\ stream' = serialize(src)
                /\ v' = load(tw, v, stream')
                /\ last' = [op |-> "load", src |-> src, pre |-> v]
    /\ lst' = Elements(v')
    /\ ops' = ops + 1
    /\ UNCHANGED <<tw, junk, exc, rk, u, tw2, mem>>

\* the patterns of the indexes built over the vector: one of one bit and one
\* of two bits
QueryPats == {"1", "10"}

\* rank_support_v<p> rs(&v); rs.rank(idx)
RankV ==
    /\ Ready
    /\ tw = 1
    /\ \E p \in QueryPats, idx \in {0, size(v)} :
          \E bb \in {rank_support_v(p, v)} :
             \E r \in DenseOutcomes(p, bb, v, idx) :
                rk' = [variant |-> "v", p |-> p, idx |-> idx,
                       reads |-> rank_v_reads(p, idx), r |-> r]
    /\ UNCHANGED <<tw, v, lst, junk, exc, ops, last, stream, u, tw2, mem>>

\* rank_support_v5<p> rs(&v); rs.rank(idx)
RankV5 ==
    /\ Ready
    /\ tw = 1
    /\ \E p \in QueryPats, idx \in {0, size(v)} :
          \E bb \in {rank_support_v5(p, v)} :
             \E r \in SparseOutcomes(p, bb, v, idx) :
                rk' = [variant |-> "v5", p |-> p, idx |-> idx,
                       reads |-> rank_v5_reads(p, idx), r |-> r]
    /\ UNCHANGED <<tw, v, lst, junk, exc, ops, last, stream, u, tw2, mem>>

Next ==
    \/ PushBack \/ PopBack \/ Insert \/ InsertN \/ Erase \/ EraseRange \/ Resize
    \/ SetElem \/ SetInt \/ Flip \/ AndAssign \/ OrAssign \/ XorAssign
    \/ Reserve \/ ShrinkToFit \/ Clear \/ Width \/ StoreAndLoad
    \/ RankV \/ RankV5

Spec == Init /\ [][Next]_vars

\* resize(n, x) when the allocator has no memory for the request
ResizeBadAlloc ==
    /\ Ready
    /\ \E n \in ResizeSizes(v) :
          /\ n * v.m_width > v.m_capacity
          /\ mm_reallocates(v, n * v.m_width)
          /\ v' = mm_resize_failed(v, n * v.m_width)
          /\ last' = [op |-> "resize", n |-> n, pre |-> v]
    /\ exc' = "bad_alloc"
    /\ ops' = ops + 1
    /\ UNCHANGED <<tw, lst, junk, stream, rk, u, tw2, mem>>

\* push_back(x) when the allocator has no memory for the request
PushBackBadAlloc ==
    /\ Ready
    /\ (size(v) + 1) * v.m_width > v.m_capacity \/ v.m_data = NULL
    /\ mm_reallocates(v, new_capacity(v, size(v) + 1))
    /\ v' = mm_resize_failed(v, new_capacity(v, size(v) + 1))
    /\ last' = [op |-> "push_back", pre |-> v]
    /\ exc' = "bad_alloc"
    /\ ops' = ops + 1
    /\ UNCHANGED <<tw, lst, junk, stream, rk, u, tw2, mem>>

NextOOM == Next \/ ResizeBadAlloc \/ PushBackBadAlloc

SpecOOM == Init /\ [][NextOOM]_vars

---------------------------------------------------------------------------
(* Properties of the vector *)

\* C3: a rank query of either variant, at any index of [0, size()], reads
\* only words inside the allocated buffer of the vector
RankReadsInsideBuffer ==
    rk.variant \in {"v", "v5"} => rk.reads \subseteq 0..(AllocWords(v) - 1)

\* C4: every bit of the buffer at a position at or beyond the bit length is
\* zero, the padding word after a length that is a multiple of 64 included
TailBitsZero ==
    \A j \in 1..AllocWords(v) : \A b \in v.m_data[j] : 64 * (j - 1) + b < v.m_size

\* C5: the bit capacity is at least the bit length
CapacityCoversSize == bit_capacity(v) >= bit_size(v)

\* C6: after loading what serialize(src) wrote, the vector has the width, the
\* size and the elements of src, whatever it held before
LoadRestoresSource ==
    last.op = "load" =>
        /\ stream = serialize(last.src)
        /\ v.m_width = last.src.m_width
        /\ size(v) = size(last.src)
        /\ \A i \in 0..(size(v) - 1) : Get(v, i) = Get(last.src, i)

\* a runtime-width vector of two 64-bit elements has loaded a vector of 5-bit
\* elements that took more than one chunk to read
LoadWitness ==
    /\ last.op = "load"
    /\ tw = 0
    /\ last.pre.m_width = 64
    /\ size(last.pre) = 2
    /\ v.m_width = 5
    /\ bit_data_size(v) > SDSL_BLOCK_SIZE
    /\ Get(v, 0) # Get(v, size(v) - 1)

\* C7: when the allocator fails the vector is what it was before the call
AllocFailureLeavesVector == exc = "bad_alloc" => v = last.pre

\* C8: the vector is the abstract list that went through the same edits, and
\* an insert puts its copies before position pos and moves the rest right
ListRefinement ==
    /\ size(v) = Len(lst)
    /\ \A i \in 0..(size(v) - 1) : Get(v, i) = lst[i + 1]
    /\ last.op = "insert" =>
          Elements(v) = ListInsert(last.pre, last.pos, last.n, Mod(last.x, v.m_width))

\* one element was inserted in the middle of a vector of 5-bit elements, and
\* elements moved across the word boundary
InsertWitness ==
    /\ last.op = "insert"
    /\ last.n = 1
    /\ v.m_width = 5
    /\ Len(last.pre) = 13
    /\ last.pos = 6
    /\ size(v) = 14
    /\ Get(v, 6) # Get(v, 7)

\* C9: after resize(n, x) the size is n, the elements below the old size are
\* the old ones and the new ones are x modulo 2^width; after construction
\* with (n, x) all n elements are x modulo 2^width
ResizeFrame ==
    /\ last.op = "resize" =>
          /\ size(v) = last.n
          /\ \A i \in 1..last.n :
                Get(v, i - 1) = IF i <= Len(last.pre) THEN last.pre[i]
                                ELSE Mod(last.x, v.m_width)
    /\ last.op = "int_vector" =>
          /\ size(v) = last.n
          /\ \A i \in 1..last.n : Get(v, i - 1) = Mod(last.x, v.m_width)

\* a vector with elements grew across the word boundary, with a new value
\* that differs from the old elements
ResizeWitness ==
    /\ last.op = "resize"
    /\ v.m_width = 5
    /\ Len(last.pre) = 12
    /\ last.n = 13
    /\ Get(v, 12) = {0, 2}
    /\ Get(v, 0) = Zero

\* C10: after set_int(idx, x, len), get_int(idx, len) is x modulo 2^len and
\* every bit outside the field is what it was; and the const iterator reads
\* element i as get_int(i * width, width)
FieldAccessExact ==
    /\ last.op = "set_int" =>
          /\ get_int(v, last.idx, last.len) = Mod(last.x, last.len)
          /\ \A j \in 1..AllocWords(v) : \A b \in Bit :
                LET g == 64 * (j - 1) + b
                IN (g < last.idx \/ g >= last.idx + last.len) =>
                      ((b \in v.m_data[j]) <=> (b \in last.pre[j]))
    /\ \A i \in 0..(size(v) - 1) :
          ConstIterDeref(v, i) = get_int(v, i * v.m_width, v.m_width)

\* a 64-bit field was written over the boundary of the first two words
FieldWitness ==
    /\ last.op = "set_int"
    /\ last.idx = 62
    /\ last.len = 64
    /\ last.x = {0, 2, 63}
    /\ v.m_data[1] \cap {62, 63} = {62}
    /\ 61 \in v.m_data[2]

---------------------------------------------------------------------------
(* The rank test (rank_support_test.cpp, rank_method) as a state machine: one
   step of the loop per transition *)

\* the bit vectors of the test files: the bit at position g
TestBit(f, g) ==
    CASE f = "zeros" -> FALSE
      [] f = "ones"  -> TRUE
      [] f = "runs"  -> (g % 7) < 3
      [] f = "101101" -> (g % 3) # 1
      [] f = "110110" -> (g % 3) # 2

\* bit lengths of the test files
TestSizes == {0, 6, 63, 65, 512, 513, 64 * RankWords}

\* a test file: the serialized form of a bit vector of n bits of family f
TestFile(f, n) ==
    <<write_header(n, 1)>>
    \o [k \in 1..((n + 63) \div 64) |->
           {b \in Bit : 64 * (k - 1) + b < n /\ TestBit(f, 64 * (k - 1) + b)}]

TestFiles ==
    {TestFile(f, n) : f \in {"zeros", "ones", "runs"}, n \in TestSizes}
    \cup {TestFile("101101", 6), TestFile("110110", 6)}

\* bit_vector bvec, not yet loaded: the test is about to read one of the files
InitRank ==
    /\ tw = 1
    /\ junk \in Junk
    /\ stream \in TestFiles
    /\ v = int_vector(1, 0, Zero, 1)
    /\ last = [op |-> "bit_vector", bvec |-> v]
    /\ rk = NoRank
    /\ u = NoVector
    /\ tw2 = tw
    /\ mem = NoMem
    /\ lst = Elements(v)
    /\ exc = "none"
    /\ ops = 0

\* load_from_file(bvec, test_file); bv(bvec); rs(&bv); rank = 0; j = 0; rs.rank(0)
RankMethodSetup ==
    /\ rk = NoRank
    /\ last' = [op |-> "load_from_file", bvec |-> load(1, last.bvec, stream)]
    /\ v' = copy_construct(1, last'.bvec)
    /\ \E p \in Pat :
          \E rs \in {rank_support_v(p, v')}, rs5 \in {rank_support_v5(p, v')} :
             \E r \in DenseOutcomes(p, rs, v', 0), r5 \in SparseOutcomes(p, rs5, v', 0) :
                rk' = [variant |-> "test", p |-> p, j |-> 0, rank |-> 0,
                       rs |-> rs, rs5 |-> rs5, r |-> r, r5 |-> r5]
    /\ lst' = Elements(v')
    /\ UNCHANGED <<tw, junk, exc, ops, stream, u, tw2, mem>>

\* one round of the loop: rank += found; ++j; rs.rank(j)
RankMethodStep ==
    /\ rk.variant = "test"
    /\ rk.r.ok /\ rk.r5.ok
    /\ rk.j < size(last.bvec)
    /\ \E r \in DenseOutcomes(rk.p, rk.rs, v, rk.j + 1),
          r5 \in SparseOutcomes(rk.p, rk.rs5, v, rk.j + 1) :
          rk' = [rk EXCEPT !.j = rk.j + 1,
                           !.rank = rk.rank + (IF found(rk.p, last.bvec, rk.j) THEN 1 ELSE 0),
                           !.r = r, !.r5 = r5]
    /\ UNCHANGED <<tw, v, lst, junk, exc, ops, last, stream, u, tw2, mem>>

NextRank == RankMethodSetup \/ RankMethodStep

SpecRank == InitRank /\ [][NextRank]_vars

\* C1: at every round of the test loop, rank(j) of the dense index is the
\* count of the naive scan of the first j bits, j = size() included
DenseRankIsNaiveScan ==
    rk.variant = "test" => rk.r = [ok |-> TRUE, value |-> rk.rank]

\* the scan of a 2-bit pattern has reached the end of a vector that goes into
\* a second superblock, and has counted occurrences in every word
DenseRankWitness ==
    /\ rk.variant = "test"
    /\ rk.p = "10"
    /\ rk.j = size(v)
    /\ size(v) = 513
    /\ rk.rank > 64
    /\ rk.r.value = rk.rank

\* C2: at every round of the test loop, rank(j) of the sparse index is
\* delivered and is the count of the naive scan, hence the dense value
SparseRankIsNaiveScan ==
    rk.variant = "test" =>
        /\ rk.r5 = [ok |-> TRUE, value |-> rk.rank]
        /\ rk.r5 = rk.r

-----------------------------------------------------------------------------
\* Serialized form

CeilDiv(a, b) == (a + b - 1) \div b

\* the stream holds the header word and then the words of a vector of n
\* elements of w bits, and nothing else
DataWordsOf(src) ==
    /\ header_width(stream) = src.m_width
    /\ Len(stream) = 1 + CeilDiv(size(src) * src.m_width, 64)
    /\ \A k \in 2..Len(stream) : stream[k] = src.m_data[k - 1]

\* C11 as stated: the serialized form of a vector is one header word whose
\* top 8 bits hold the width and whose low 56 bits hold the ELEMENT COUNT,
\* followed by exactly ceil(count * width / 64) data words.
HeaderHoldsElementCount ==
    last.op = "load" =>
        /\ DataWordsOf(last.src)
        /\ band(stream[1], lo_set(56)) = ToWord(size(last.src))

\* C11, amended: the low 56 bits of the header word hold the BIT LENGTH
\* (count * width); the top 8 bits hold the width; exactly
\* ceil(count * width / 64) data words follow, whatever the chunk size, and
\* the padding word of the buffer is not written.
HeaderHoldsBitLength ==
    last.op = "load" =>
        /\ DataWordsOf(last.src)
        /\ band(stream[1], lo_set(56)) = ToWord(size(last.src) * last.src.m_width)
        /\ shr(stream[1], 56) = ToWord(last.src.m_width)

\* a vector of elements wider than one bit was written whose word count is a
\* multiple of the chunk size, so that the last chunk is a full one
SerializeWitness ==
    /\ last.op = "load"
    /\ last.src.m_width > 1
    /\ bit_data_size(last.src) > SDSL_BLOCK_SIZE
    /\ bit_data_size(last.src) % SDSL_BLOCK_SIZE = 0
    /\ AllocWords(last.src) > bit_data_size(last.src)

-----------------------------------------------------------------------------
\* Growth by push_back

\* int_vector<tw> v; an empty vector, and no reallocation so far
InitGrow ==
    /\ tw \in StaticWidths
    /\ junk \in Junk
    /\ \E w \in (IF tw = 0 THEN RuntimeWidths ELSE {tw}) :
          v = int_vector(tw, 0, Zero, w)
    /\ last = [op |-> "int_vector", reallocs |-> 0, cap |-> 0,
               fits |-> FALSE, did |-> FALSE]
    /\ lst = <<>>
    /\ exc = "none"
    /\ ops = 0
    /\ stream = <<>>
    /\ rk = NoRank
    /\ u = NoVector
    /\ tw2 = tw
    /\ mem = NoMem

\* v.push_back(x); the record counts the calls of the allocator, keeps the
\* capacity asked for at the last one, and tells whether this push_back fitted
\* in that capacity (fits) and whether it called the allocator (did)
GrowPushBack ==
    /\ ops < MaxPush
    /\ \E x \in Operands :
          LET did == amortized_reallocates(v, size(v) + 1)
          IN /\ v' = push_back(v, x)
             /\ lst' = Append(lst, Mod(x, v.m_width))
             /\ last' = [op |-> "push_back",
                         reallocs |-> last.reallocs + (IF did THEN 1 ELSE 0),
                         cap |-> IF did THEN new_capacity(v, size(v) + 1)
                                 ELSE last.cap,
                         fits |-> (size(v) + 1) * v.m_width <= last.cap,
                         did |-> did]
    /\ ops' = ops + 1
    /\ UNCHANGED <<tw, junk, exc, stream, rk, u, tw2, mem>>

\* v.resize(n) with n below the size, at the end of a growth run
GrowShrink ==
    /\ ops < MaxPush
    /\ size(v) > 0
    /\ \E n \in {0, size(v) \div 2} :
          /\ v' = resize(v, n, Zero)
          /\ lst' = ListResize(lst, n, Zero)
          /\ last' = [op |-> "resize", reallocs |-> last.reallocs, cap |-> last.cap,
                      fits |-> TRUE, did |-> n * v.m_width > v.m_capacity
                                            /\ mm_reallocates(v, n * v.m_width)]
    /\ ops' = MaxPush
    /\ UNCHANGED <<tw, junk, exc, stream, rk, u, tw2, mem>>

NextGrow == GrowPushBack \/ GrowShrink

SpecGrow == InitGrow /\ [][NextGrow]_vars

\* smallest k with 64 * 1.5^k >= bits
RECURSIVE LogBound(_, _)
LogBound(bits, k) ==
    IF 64 * (3 ^ k) >= bits * (2 ^ k) THEN k ELSE LogBound(bits, k + 1)

\* C12: n push_back calls on an empty vector make O(log n) reallocations (at
\* most one per factor 1.5 of the capacity, starting at 64 bits, and one more
\* for the first), and a push_back that fits in the capacity obtained at the
\* last reallocation makes none.
PushBackAmortized ==
    last.op = "push_back" =>
        /\ last.reallocs <= 1 + LogBound(v.m_size, 0)
        /\ last.fits => ~last.did


\* smallest k with c * 1.5^k >= bits
RECURSIVE FitExp(_, _, _)
FitExp(c, bits, k) ==
    IF c * (3 ^ k) >= bits * (2 ^ k) THEN k ELSE FitExp(c, bits, k + 1)

\* c * 1.5^k rounded up, for the smallest k that makes it at least bits
SmallestFit(c, bits) ==
    LET k == FitExp(c, bits, 0)
    IN (c * (3 ^ k) + (2 ^ k) - 1) \div (2 ^ k)

\* C13: a growing operation that reallocates asks for C * 1.5^k rounded up,
\* for the smallest k >= 0 that holds the bits needed (the capacity asked for
\* at the first reallocation of an empty vector is the one for C = 64); a
\* shrinking resize reallocates, and the buffer it leaves is the one of a
\* vector of exactly the requested size.
GrowthRequestsSmallestFit ==
    /\ last.op = "push_back" /\ last.did =>
          last.cap = SmallestFit(IF v.m_capacity = 0 THEN 64 ELSE v.m_capacity,
                                 v.m_size)
    /\ last.op = "resize" =>
          /\ last.did
          /\ AllocWords(v) = (v.m_size + 64) \div 64

-----------------------------------------------------------------------------
\* C14: in every reachable state the buffer is null if and only if the bit
\* capacity is 0 (a vector that holds a buffer reports a non-zero capacity).
BufferNullIffNoCapacity == (v.m_data = NULL) <=> (bit_capacity(v) = 0)

-----------------------------------------------------------------------------
\* Two vectors: copies and moves

\* the address of a buffer: 0 for no buffer, else the address given
AddrOf(vec, a) == IF vec.m_data = NULL THEN 0 ELSE a

\* int_vector<tw> v(n, x, w); its buffer, if any, is at address 1
InitPair ==
    /\ tw \in StaticWidths
    /\ junk \in Junk
    /\ \E w \in (IF tw = 0 THEN RuntimeWidths ELSE {tw}), x \in Vals :
          \E n \in Sizes(set_width(tw, w, tw)) :
             /\ v = int_vector(tw, n, x, w)
             /\ last = [op |-> "int_vector", n |-> n, x |-> x]
    /\ lst = Elements(v)
    /\ exc = "none"
    /\ ops = 0
    /\ stream = <<>>
    /\ rk = NoRank
    /\ u = NoVector
    /\ tw2 = tw
    /\ mem = [pv |-> AddrOf(v, 1), pu |-> 0, next |-> 2]

PairReady == ops < MaxPairOps

\* the pair after an operation: vectors v2 and u2 with buffers at a2 and b2
PairDone(v2, u2, a2, b2, rec) ==
    /\ v' = v2
    /\ u' = u2
    /\ mem' = [mem EXCEPT !.pv = AddrOf(v2, a2), !.pu = AddrOf(u2, b2),
                          !.next = mem.next + 1]
    /\ lst' = Elements(v2)
    /\ last' = rec
    /\ ops' = ops + 1
    /\ UNCHANGED <<tw, junk, exc, stream, rk, tw2>>

\* int_vector<tw> u(v)
CopyConstruct ==
    /\ PairReady
    /\ u = NoVector
    /\ PairDone(v, copy_construct(tw, v), mem.pv, mem.next,
                [op |-> "copy", src |-> v])

\* int_vector<tw> u(std::move(v))
MoveConstruct ==
    /\ PairReady
    /\ u = NoVector
    /\ \E r \in {move(NoVector, v)} :
          PairDone(r.source, r.target, mem.pv, mem.pv, [op |-> "move", src |-> v])

\* u = v
CopyAssign ==
    /\ PairReady
    /\ u # NoVector
    /\ PairDone(v, copy_assign(tw, u, v), mem.pv, mem.next,
                [op |-> "copy", src |-> v])

\* u = std::move(v)
MoveAssign ==
    /\ PairReady
    /\ u # NoVector
    /\ \E r \in {move(u, v)} :
          PairDone(r.source, r.target, mem.pv, mem.pv, [op |-> "move", src |-> v])

\* the words at address a after the words `data` were stored at address b
Seen(vec, a, b, data) ==
    IF a # 0 /\ a = b THEN [vec EXCEPT !.m_data = data] ELSE vec

\* v[i] = x: the write goes to the buffer of v, and to whoever else holds it
WriteFirst ==
    /\ PairReady
    /\ u # NoVector
    /\ size(v) > 0
    /\ \E i \in {0, size(v) - 1}, x \in Vals :
          \E v2 \in {Put(v, i, x)} :
             PairDone(v2, Seen(u, mem.pu, mem.pv, v2.m_data), mem.pv, mem.pu,
                      [op |-> "write v", other |-> u])

\* u[i] = x
WriteSecond ==
    /\ PairReady
    /\ u # NoVector
    /\ size(u) > 0
    /\ \E i \in {0, size(u) - 1}, x \in Vals :
          \E u2 \in {Put(u, i, x)} :
             PairDone(Seen(v, mem.pv, mem.pu, u2.m_data), u2, mem.pv, mem.pu,
                      [op |-> "write u", other |-> v])

\* v.push_back(x); a buffer that is reallocated may move to a new address
PairPushBack ==
    /\ PairReady
    /\ u # NoVector
    /\ \E x \in Operands, a \in {mem.pv, mem.next} :
          /\ a = mem.pv \/ amortized_reallocates(v, size(v) + 1)
          /\ a # 0
          /\ \E v2 \in {push_back(v, x)} :
                PairDone(v2, Seen(u, mem.pu, mem.pv, v2.m_data), a, mem.pu,
                         [op |-> "push_back", other |-> u])

NextPair ==
    \/ CopyConstruct \/ MoveConstruct \/ CopyAssign \/ MoveAssign
    \/ WriteFirst \/ WriteSecond \/ PairPushBack

SpecPair == InitPair /\ [][NextPair]_vars

\* C15: two vectors never hold the same buffer; a copy has the width, the
\* size and the elements of its source and a buffer of its own, so that a
\* write to one vector leaves the other as it was; a move gives the target
\* the contents of the source and leaves the source with no buffer, size 0
\* and capacity 0.
BuffersNotShared ==
    /\ u # NoVector /\ mem.pv # 0 => mem.pv # mem.pu
    /\ last.op = "copy" =>
          /\ v = last.src
          /\ u.m_width = v.m_width
          /\ size(u) = size(v)
          /\ Elements(u) = Elements(v)
    /\ last.op = "move" =>
          /\ u.m_width = last.src.m_width
          /\ u.m_size = last.src.m_size
          /\ Elements(u) = Elements(last.src)
          /\ v.m_data = NULL /\ v.m_size = 0 /\ v.m_capacity = 0
    /\ last.op = "write v" => u = last.other
    /\ last.op = "write u" => v = last.other
    /\ last.op = "push_back" => u = last.other

\* a copy of a vector that spans two words was made, and an element of the
\* source was then overwritten: the copy still holds the old value
CopyWitness ==
    /\ last.op = "write v"
    /\ mem.pv # 0 /\ mem.pu # 0
    /\ size(u) = size(v) /\ size(v) > 12
    /\ v.m_width = 5
    /\ Get(v, 0) # Get(u, 0)
    /\ Get(v, 12) = Get(u, 12)

-----------------------------------------------------------------------------
\* Equality of two vectors

\* the widths of the runtime-width vectors that are compared
EqRuntimeWidths == {5, 8, 64}

\* int_vector<tw> v(n, x, w); int_vector<tw2> u(n2, x2, w2)
InitEq ==
    /\ tw \in StaticWidths
    /\ tw2 \in StaticWidths
    /\ junk \in Junk
    /\ \E w1 \in (IF tw = 0 THEN EqRuntimeWidths ELSE {tw}), x \in Vals :
          \E n \in Sizes(w1) : v = int_vector(tw, n, x, w1)
    /\ \E w2 \in (IF tw2 = 0 THEN EqRuntimeWidths ELSE {tw2}), x \in Vals :
          \E n \in Sizes(w2) : u = int_vector(tw2, n, x, w2)
    /\ last = [op |-> "int_vector"]
    /\ lst = Elements(v)
    /\ exc = "none"
    /\ ops = 0
    /\ stream = <<>>
    /\ rk = NoRank
    /\ mem = NoMem

\* v.pop_back(), before the comparison
EqPopBack ==
    /\ last.op = "int_vector"
    /\ size(v) > 0
    /\ v' = pop_back(v)
    /\ lst' = Elements(v')
    /\ last' = [op |-> "pop_back"]
    /\ ops' = ops + 1
    /\ UNCHANGED <<tw, junk, exc, stream, rk, u, tw2, mem>>

\* v == u
Compare ==
    /\ last.op # "=="
    /\ last' = [op |-> "==", r |-> equal(tw, v, tw2, u)]
    /\ ops' = ops + 1
    /\ UNCHANGED <<tw, v, lst, junk, exc, stream, rk, u, tw2, mem>>

NextEq == EqPopBack \/ Compare

SpecEq == InitEq /\ [][NextEq]_vars

\* bit p of the buffer
BitAt(vec, p) == (p % 64) \in WordAt(vec.m_data, p \div 64)

\* C16: for two vectors of the same width, v == u holds exactly when they
\* have the same bit length and the same bit at every position below it; the
\* bits of the last word at or after the bit length play no part, and two
\* empty vectors are equal.
EqualIsBitwise ==
    last.op = "==" /\ tw = tw2 /\ v.m_width = u.m_width =>
        last.r = (/\ v.m_size = u.m_size
                  /\ \A p \in 0..(v.m_size - 1) : BitAt(v, p) = BitAt(u, p))

\* two vectors of 12 elements of 5 bits were found equal although their last
\* words differ after the bit length (one of them had a 13th element)
EqualWitness ==
    /\ last.op = "==" /\ last.r
    /\ tw = tw2 /\ v.m_width = 5 /\ u.m_width = 5
    /\ v.m_size = 60
    /\ WordAt(v.m_data, 0) # WordAt(u.m_data, 0)


\* C17: two vectors compare equal if and only if their element counts are
\* equal and their elements are equal at every index, whatever the static
\* widths of their types and whatever their current widths.
EqualIsElementwise ==
    last.op = "==" =>
        last.r = (/\ size(v) = size(u)
                  /\ \A i \in 0..(size(v) - 1) : Get(v, i) = Get(u, i))

-----------------------------------------------------------------------------
\* C18: width(w) changes nothing on a vector of static width; on a vector of
\* runtime width it sets the width to w if 1 <= w <= 64 and to 64 otherwise;
\* the bit length, the capacity and every bit of the buffer stay as they were.
WidthOnlyReinterprets ==
    last.op = "width" =>
        /\ tw # 0 => v = last.pre
        /\ tw = 0 => v.m_width = IF 1 <= last.w /\ last.w <= 64 THEN last.w ELSE 64
        /\ v.m_size = last.pre.m_size
        /\ v.m_capacity = last.pre.m_capacity
        /\ v.m_data = last.pre.m_data

\* a runtime-width vector of 13 elements of 5 bits was given the width 65 and
\* has the width 64
WidthWitness ==
    /\ last.op = "width" /\ last.w = 65
    /\ tw = 0
    /\ last.pre.m_width = 5 /\ last.pre.m_size = 65
    /\ v.m_width = 64

-----------------------------------------------------------------------------
\* Loading a stream of another width

\* the widths of the vectors another program stored
StoredWidths == {1, 5, 64}

\* src.serialize(out), src a runtime-width vector of a width that is not the
\* static width of v; v.load(in). load calls bit_resize with the bit length of
\* the header: a build with assertions aborts there if that is no multiple of
\* the width of v, a build without them goes on.
LoadOtherWidth ==
    /\ exc = "none"
    /\ ops < MaxOps
    /\ tw # 0
    /\ \E ws \in StoredWidths \ {tw} :
          \E n \in SourceSizes(ws) :
             \E src \in {Put(int_vector(0, n + 1, {0, 2, 63}, ws), 0, all_set)} :
                /\ stream' = serialize(src)
                /\ last' = [op |-> "load", src |-> src, pre |-> v]
                /\ \/ /\ v' = load(tw, v, stream')
                      /\ exc' = "none"
                   \/ /\ bit_resize_asserts(v, header_size(stream'))
                      /\ v' = v
                      /\ exc' = "abort"
    /\ lst' = Elements(v')
    /\ ops' = ops + 1
    /\ UNCHANGED <<tw, junk, rk, u, tw2, mem>>

NextLoad == LoadOtherWidth

SpecLoad == Init /\ [][NextLoad]_vars

\* C19: loading into a vector of static width W a stream whose header names
\* another width completes without failure or abort; the vector keeps the
\* width W, takes the bit length of the header, and holds the data words of
\* the stream.
LoadKeepsStaticWidth ==
    last.op = "load" =>
        /\ exc = "none"
        /\ v.m_width = tw
        /\ v.m_size = last.src.m_size
        /\ \A k \in 0..(bit_data_size(v) - 1) :
              WordAt(v.m_data, k) = WordAt(last.src.m_data, k)

-----------------------------------------------------------------------------
\* Memory accounting

\* the accounting after a call that went through memory_manager::resize(v, sz)
\* if `called`: the sum of the reports, the bytes of the buffer as
\* memory_manager counts them (without the padding word), the report of this
\* call, and whether the bytes of the buffer changed
Accounted(called, sz) ==
    LET delta == IF called THEN mm_records(v, sz) ELSE 0
        held  == IF called /\ mm_reallocates(v, sz) THEN bytes_of(sz) ELSE mem.held
    IN [live     |-> TRUE,
        recorded |-> mem.recorded + delta,
        held     |-> held,
        delta    |-> delta,
        changed  |-> held # mem.held]

\* int_vector<tw> v(n, x, w), its allocation reported by memory_manager::resize
InitMem ==
    /\ tw \in StaticWidths
    /\ junk \in Junk
    /\ \E w \in (IF tw = 0 THEN RuntimeWidths ELSE {tw}), x \in Vals :
          \E n \in Sizes(set_width(tw, w, tw)) :
             /\ v = int_vector(tw, n, x, w)
             /\ last = [op |-> "int_vector", n |-> n, x |-> x]
    /\ mem = [live |-> TRUE, recorded |-> bytes_of(v.m_size),
              held |-> bytes_of(v.m_size), delta |-> bytes_of(v.m_size),
              changed |-> v.m_data # NULL]
    /\ lst = Elements(v)
    /\ exc = "none"
    /\ ops = 0
    /\ stream = <<>>
    /\ rk = NoRank
    /\ u = NoVector
    /\ tw2 = tw

MemReady == mem.live /\ ops < MaxMemOps

MemDone(v2, called, sz, rec) ==
    /\ v' = v2
    /\ mem' = Accounted(called, sz)
    /\ lst' = Elements(v2)
    /\ last' = rec
    /\ ops' = ops + 1
    /\ UNCHANGED <<tw, junk, exc, stream, rk, u, tw2>>

\* v.resize(n)
MemResize ==
    /\ MemReady
    /\ \E n \in ResizeSizes(v) :
          MemDone(resize(v, n, Zero), n * v.m_width > v.m_capacity, n * v.m_width,
                  [op |-> "resize", n |-> n])

\* v.push_back(x)
MemPushBack ==
    /\ MemReady
    /\ \E x \in Operands :
          MemDone(push_back(v, x),
                  (size(v) + 1) * v.m_width > v.m_capacity \/ v.m_data = NULL,
                  new_capacity(v, size(v) + 1), [op |-> "push_back"])

\* v.pop_back()
MemPopBack ==
    /\ MemReady
    /\ size(v) > 0
    /\ MemDone(pop_back(v), (size(v) - 1) * v.m_width > v.m_capacity,
               (size(v) - 1) * v.m_width, [op |-> "pop_back"])

\* v.clear()
MemClear ==
    /\ MemReady
    /\ MemDone(clear(v), FALSE, 0, [op |-> "clear"])

\* v.shrink_to_fit()
MemShrinkToFit ==
    /\ MemReady
    /\ MemDone(shrink_to_fit(v), TRUE, v.m_size, [op |-> "shrink_to_fit"])

\* ~int_vector(): memory_manager::clear releases the buffer and reports
Destroy ==
    /\ mem.live
    /\ v' = [v EXCEPT !.m_data = NULL]
    /\ mem' = [live |-> FALSE,
               recorded |-> mem.recorded + (IF bytes_of(v.m_size) # 0
                                            THEN mm_clear_records(v) ELSE 0),
               held |-> 0,
               delta |-> IF bytes_of(v.m_size) # 0 THEN mm_clear_records(v) ELSE 0,
               changed |-> v.m_data # NULL]
    /\ last' = [op |-> "destroy"]
    /\ ops' = ops + 1
    /\ UNCHANGED <<tw, lst, junk, exc, stream, rk, u, tw2>>

NextMem ==
    \/ MemResize \/ MemPushBack \/ MemPopBack \/ MemClear \/ MemShrinkToFit
    \/ Destroy

SpecMem == InitMem /\ [][NextMem]_vars

\* C20: the sum of the byte deltas reported to the accounting collaborator is
\* the number of bytes the live vector holds (counted as memory_manager counts
\* them, without the padding word), a call that leaves the bytes of the
\* buffer as they were reports nothing, and the sum is back at 0 once the
\* vector is destroyed.
AccountingBalanced ==
    /\ mem.live => mem.recorded = mem.held
    /\ mem.delta # 0 => mem.changed
    /\ ~mem.live => mem.recorded = 0

-----------------------------------------------------------------------------
\* memory_monitor::record called by several threads

Threads == 1..NThreads

\* the byte deltas the threads report
Deltas == {8, 0 - 8}

\* a lock() that never waits
lock_never_spins(old) == FALSE

\* spin_lock::lock: the loop goes round again if test_and_set returned true
lock_spins(old) == old

\* the variables of the model that are not part of the monitor
NoVectorState ==
    /\ tw = 1
    /\ junk = Zero
    /\ v = int_vector(1, 0, Zero, 1)
    /\ lst = <<>>
    /\ exc = "none"
    /\ ops = 0
    /\ stream = <<>>
    /\ rk = NoRank
    /\ u = NoVector
    /\ tw2 = 1

\* memory_monitor::start() was called, and possibly record(16) after it; the
\* event stack holds the event "unknown" with the usages logged so far; no
\* thread is inside record
InitRecord ==
    /\ NoVectorState
    /\ \E u0 \in {0, 16} :
          mem = [track_usage |-> TRUE, current_usage |-> u0,
                 event_stack |-> << IF u0 = 0 THEN <<0>> ELSE <<0, u0>> >>,
                 slock |-> FALSE,
                 pc |-> [t \in Threads |-> "idle"],
                 delta |-> [t \in Threads |-> 0],
                 cur |-> [t \in Threads |-> 0],
                 elapsed |-> [t \in Threads |-> FALSE],
                 calls |-> [t \in Threads |-> 0],
                 initial |-> u0, sum |-> 0, spun |-> FALSE]
    /\ last = [op |-> "start"]

\* the event stack with the allocations of its top event replaced
WithTop(stack, allocations) == [stack EXCEPT ![Len(stack)] = allocations]

\* record(delta) is called: if (m.track_usage)
RecordCall(t) ==
    /\ mem.pc[t] = "idle"
    /\ mem.calls[t] < MaxCalls
    /\ \E d \in Deltas :
          mem' = [mem EXCEPT !.pc[t] = IF mem.track_usage THEN "lock" ELSE "idle",
                             !.delta[t] = d,
                             !.calls[t] = @ + 1,
                             !.sum = IF mem.track_usage THEN @ + d ELSE @]
    /\ UNCHANGED <<tw, v, lst, junk, exc, ops, last, stream, rk, u, tw2>>

\* lock_guard<spin_lock> lock(m.spinlock): one round of test_and_set
RecordLock(t) ==
    /\ mem.pc[t] = "lock"
    /\ mem' = [mem EXCEPT !.slock = TRUE,
                          !.pc[t] = IF lock_spins(mem.slock) THEN "lock" ELSE "read",
                          !.spun = @ \/ lock_spins(mem.slock)]
    /\ UNCHANGED <<tw, v, lst, junk, exc, ops, last, stream, rk, u, tw2>>

\* the clock is read and compared with last_event + log_granularity; the top
\* event gets the old usage where the time has elapsed; m.current_usage is
\* read. Where no time has elapsed and the top event has no allocation, the
\* call is over and the lock is released.
RecordRead(t) ==
    /\ mem.pc[t] = "read"
    /\ \E e \in BOOLEAN :
          LET top == mem.event_stack[Len(mem.event_stack)]
          IN IF e
             THEN mem' = [mem EXCEPT !.event_stack = WithTop(@, Append(top, mem.current_usage)),
                                     !.cur[t] = mem.current_usage,
                                     !.elapsed[t] = TRUE,
                                     !.pc[t] = "write"]
             ELSE IF Len(top) > 0
             THEN mem' = [mem EXCEPT !.cur[t] = mem.current_usage,
                                     !.elapsed[t] = FALSE,
                                     !.pc[t] = "write"]
             ELSE mem' = [mem EXCEPT !.slock = FALSE, !.pc[t] = "idle"]
    /\ UNCHANGED <<tw, v, lst, junk, exc, ops, last, stream, rk, u, tw2>>

\* m.current_usage = (the value read) + delta; the top event logs the new
\* usage; the lock_guard releases the lock
RecordWrite(t) ==
    /\ mem.pc[t] = "write"
    /\ LET top  == mem.event_stack[Len(mem.event_stack)]
           used == mem.cur[t] + mem.delta[t]
       IN mem' = [mem EXCEPT !.current_usage = used,
                             !.event_stack =
                                 WithTop(@, IF mem.elapsed[t] THEN Append(top, used)
                                            ELSE [top EXCEPT ![Len(top)] = used]),
                             !.slock = FALSE,
                             !.pc[t] = "idle"]
    /\ UNCHANGED <<tw, v, lst, junk, exc, ops, last, stream, rk, u, tw2>>

NextRecord ==
    \E t \in Threads : RecordCall(t) \/ RecordLock(t) \/ RecordRead(t) \/ RecordWrite(t)

SpecRecord == InitRecord /\ [][NextRecord]_vars

\* C21: at most one thread is between the acquisition and the release of the
\* spin lock in record, and once all calls have returned the current usage
\* is the initial usage plus the sum of all deltas.
RecordSerialized ==
    /\ Cardinality({t \in Threads : mem.pc[t] \in {"read", "write"}}) <= 1
    /\ (\A t \in Threads : mem.pc[t] = "idle") =>
          mem.current_usage = mem.initial + mem.sum

\* two threads have each finished two calls, one of them had to spin, and the
\* deltas add up to 16
RecordWitness ==
    /\ \A t \in Threads : mem.pc[t] = "idle" /\ mem.calls[t] = 2
    /\ mem.spun
    /\ mem.sum = 16
    /\ mem.current_usage = mem.initial + 16

-----------------------------------------------------------------------------
\* Scenario: bit vector 110110, pattern 10

\* the test runs the pattern 10 over the vector with bits 1,1,0,1,1,0
Scenario110110 ==
    /\ rk.variant = "test"
    /\ rk.p = "10"
    /\ size(last.bvec) = 6
    /\ WordAt(last.bvec.m_data, 0) = {0, 1, 3, 4}

\* C22 as stated: rank(1) = 0, rank(2) = 1 and rank(6) = 2.
ScenarioRankAsStated ==
    Scenario110110 =>
        /\ rk.j = 1 => rk.r.value = 0
        /\ rk.j = 2 => rk.r.value = 1
        /\ rk.j = 6 => rk.r.value = 2

\* C22, amended: the occurrences start at bits 1 and 4 and end at bits 2 and
\* 5; rank(i) counts the occurrences that lie in the first i bits, so
\* rank(1) = 0, rank(2) = 0, rank(3) = 1, rank(5) = 1 and rank(6) = 2.
ScenarioRankByEnd ==
    Scenario110110 =>
        /\ rk.r.ok
        /\ rk.r.value = CASE rk.j <= 2 -> 0 [] rk.j <= 5 -> 1 [] OTHER -> 2
        /\ \A j \in 0..5 : found("10", last.bvec, j) <=> j \in {2, 5}

\* the loop has reached the end of 110110 and the index answers 2
ScenarioWitness ==
    /\ Scenario110110
    /\ rk.j = 6
    /\ rk.rank = 2
    /\ rk.r.value = 2

---------------------------------------------------------------------------
(* The select traits as a state machine: a bit vector of two words and a
   pattern are fixed by Init; each step applies found_arg at one position, or
   the word helpers to one word of the vector with the carry init_carry gives
   for that word, and leaves the results in last. *)

KernelWords ==
    {Zero, all_set, {0}, {63}, {0, 1, 3, 4}, {b \in Bit : b % 2 = 0},
     {0, 62, 63}, {1, 63}}

KernelOffsets == {0, 1, 4, 63}

KernelRanks == {1, 2, 3, 31, 32, 63, 64}

KernelPositions == {0, 1, 2, 3, 4, 63, 64, 65, 127}

InitSelect ==
    /\ tw = 1
    /\ junk = Zero
    /\ \E w0 \in KernelWords, w1 \in KernelWords :
         v = set_int(set_int(int_vector(1, 128, Zero, 1), 0, w0, 64), 64, w1, 64)
    /\ lst = <<>>
    /\ exc = "none"
    /\ ops = 0
    /\ last = [op |-> "init"]
    /\ stream = <<>>
    /\ rk \in {[variant |-> "select", p |-> p] : p \in Pat}
    /\ u = NoVector
    /\ tw2 = 1
    /\ mem = NoMem

\* found_arg(i, v)
FoundArg ==
    /\ \E i \in KernelPositions :
         last' = [op |-> "found_arg", i |-> i, r |-> found_arg(rk.p, v, i)]
    /\ UNCHANGED <<tw, v, lst, junk, exc, ops, stream, rk, u, tw2, mem>>

\* the four word helpers on word word_pos of the vector, asked for the k-th
\* occurrence at or after offset
WordHelpers ==
    /\ \E word_pos \in {0, 1}, offset \in KernelOffsets, k \in KernelRanks :
         LET w     == WordAt(v.m_data, word_pos)
             carry == sel_init_carry(rk.p, v.m_data, word_pos)
             n     == args_in_the_first_word(rk.p, w, offset, carry)
         IN /\ k <= n
            /\ last' = [op |-> "word", word_pos |-> word_pos, offset |-> offset,
                        carry |-> carry, k |-> k, n |-> n,
                        n0 |-> args_in_the_word(rk.p, w, carry),
                        pos  |-> ith_arg_pos_in_the_first_word(rk.p, w, k, offset, carry),
                        pos0 |-> ith_arg_pos_in_the_word(rk.p, w, k, carry)]
    /\ UNCHANGED <<tw, v, lst, junk, exc, ops, stream, rk, u, tw2, mem>>

NextSelect == FoundArg \/ WordHelpers

SpecSelect == InitSelect /\ [][NextSelect]_vars

\* an occurrence of pattern p whose last symbol stands at bit i of the vector
EndsAt(p, vec, i) ==
    /\ i < vec.m_size
    /\ BitOf(vec, i) = PatBits(p)[pat_len(p)]
    /\ pat_len(p) = 2 => i > 0 /\ BitOf(vec, i - 1) = PatBits(p)[1]

\* an occurrence of pattern p whose first symbol stands at bit i of the vector
StartsAt(p, vec, i) ==
    /\ i + pat_len(p) - 1 < vec.m_size
    /\ BitOf(vec, i) = PatBits(p)[1]
    /\ pat_len(p) = 2 => BitOf(vec, i + 1) = PatBits(p)[2]

\* C23 as stated: found_arg(i, v) is true exactly when an occurrence of the
\* pattern starts at bit i, that is, for a pattern ab, when bit i is a and bit
\* i + 1 is b.
FoundArgByStart ==
    last.op = "found_arg" => (last.r <=> StartsAt(rk.p, v, last.i))

\* C23 amended: found_arg(i, v) is true exactly when an occurrence of the
\* pattern ends at bit i: for a 1-bit pattern when bit i is the pattern bit, for
\* a 2-bit pattern ab when i > 0, bit i - 1 is a and bit i is b; it is false
\* for every other i in [0, size()), bit 0 included.
FoundArgByEnd ==
    last.op = "found_arg" => (last.r <=> EndsAt(rk.p, v, last.i))

\* found_arg answered true at the bit that ends an occurrence of a 2-bit
\* pattern, where no occurrence starts
FoundArgWitness ==
    /\ last.op = "found_arg" /\ last.r /\ pat_len(rk.p) = 2
    /\ ~StartsAt(rk.p, v, last.i)

\* the positions b of word word_pos, offset <= b, where an occurrence of the
\* pattern ends in the vector
OccurrencesFrom(word_pos, offset) ==
    {b \in offset..63 : EndsAt(rk.p, v, 64 * word_pos + b)}

\* C24: for every pattern, word, carry, offset o and k from 1 to the masked
\* count, the masked position helper returns the position p >= o of the k-th
\* occurrence at or after o: an occurrence ends at p and exactly k occurrences
\* end in [o, p]; the masked and unmasked counts are the numbers of occurrences
\* at or after o and in the whole word, and at offset 0 the unmasked helpers
\* return what the masked ones return.
KthPositionIsKthOccurrence ==
    last.op = "word" =>
        /\ last.pos >= last.offset
        /\ last.pos \in OccurrencesFrom(last.word_pos, last.offset)
        /\ Cardinality({b \in OccurrencesFrom(last.word_pos, last.offset) :
                           b <= last.pos}) = last.k
        /\ last.n = Cardinality(OccurrencesFrom(last.word_pos, last.offset))
        /\ last.n0 = Cardinality(OccurrencesFrom(last.word_pos, 0))
        /\ last.pos0 \in OccurrencesFrom(last.word_pos, 0)
        /\ Cardinality({b \in OccurrencesFrom(last.word_pos, 0) :
                           b <= last.pos0}) = last.k
        /\ last.offset = 0 => last.n = last.n0 /\ last.pos = last.pos0

\* the second occurrence at or after a positive offset was asked for in the
\* second word of the vector with a carry of 1, and occurrences below the
\* offset were skipped
KthPositionWitness ==
    /\ last.op = "word" /\ pat_len(rk.p) = 2
    /\ last.word_pos = 1 /\ last.carry = 1 /\ last.offset > 0 /\ last.k = 2
    /\ last.pos # last.pos0 /\ last.n < last.n0

\* C26: for a 2-bit pattern the carry of the first word is 1 for 00 and 01 and
\* 0 for 10 and 11, and the carry of a later word is bit 63 of the word before
\* it; so no occurrence is reported at bit 0 of the vector, whatever bit 0 is,
\* and an occurrence that straddles the two words is counted exactly once: the
\* counts of the two words add up to the number of occurrences in the vector.
CarryAcrossWords ==
    /\ last.op = "word" /\ pat_len(rk.p) = 2 =>
         /\ last.carry = IF last.word_pos # 0 THEN BitOf(v, 63)
                         ELSE IF rk.p \in {"00", "01"} THEN 1 ELSE 0
         /\ last.word_pos = 0 /\ last.k = 1 => last.pos0 # 0 /\ last.pos # 0
         /\ last.word_pos = 1 =>
              last.n0 + args_in_the_word(rk.p, WordAt(v.m_data, 0),
                                         sel_init_carry(rk.p, v.m_data, 0))
                = Cardinality({i \in 0..127 : EndsAt(rk.p, v, i)})
    /\ last.op = "found_arg" /\ pat_len(rk.p) = 2 /\ last.i = 0 => ~last.r

\* the first occurrence of the second word was asked for and it is the one
\* that straddles the two words: it is reported at bit 0 of the second word
StraddleWitness ==
    /\ last.op = "word" /\ pat_len(rk.p) = 2 /\ last.word_pos = 1
    /\ last.k = 1 /\ last.pos0 = 0 /\ EndsAt(rk.p, v, 64)

---------------------------------------------------------------------------
(* The test store_and_load (rank_support_test.cpp): both indexes are built
   over the vector, stored, loaded into a second instance and bound to the
   vector again; the loop then queries the stored and the loaded index *)

StoreLoadSizes == {0, 6, 65, 513}

InitStoreLoad ==
    /\ tw = 1
    /\ junk \in Junk
    /\ stream \in {TestFile(f, n) : f \in {"ones", "runs"}, n \in StoreLoadSizes}
    /\ v = int_vector(1, 0, Zero, 1)
    /\ last = [op |-> "bit_vector", bvec |-> v]
    /\ rk = NoRank
    /\ u = NoVector
    /\ tw2 = tw
    /\ mem = NoMem
    /\ lst = Elements(v)
    /\ exc = "none"
    /\ ops = 0

\* load_from_file(bvec, test_file); bv(bvec); rs(&bv); c_rs(&bv) or c_rs();
\* store_to_file(rs); load_from_file(c_rs); c_rs.set_vector(&bv); rank(0)
StoreAndLoadSetup ==
    /\ rk = NoRank
    /\ last' = [op |-> "load_from_file", bvec |-> load(1, last.bvec, stream)]
    /\ v' = copy_construct(1, last'.bvec)
    /\ \E p \in Pat, bound \in BOOLEAN :
          \E rs \in {rank_support_v(p, v')}, rs5 \in {rank_support_v5(p, v')} :
             \E c_rs  \in {store_and_load(rs, IF bound THEN rs ELSE <<>>)},
                c_rs5 \in {store_and_load(rs5, IF bound THEN rs5 ELSE <<>>)} :
                \E r \in DenseOutcomes(p, c_rs, v', 0), r5 \in SparseOutcomes(p, c_rs5, v', 0) :
                   rk' = [variant |-> "store_and_load", p |-> p, j |-> 0, rank |-> 0,
                          rs |-> rs, rs5 |-> rs5, c_rs |-> c_rs, c_rs5 |-> c_rs5,
                          r |-> r, r5 |-> r5]
    /\ lst' = Elements(v')
    /\ UNCHANGED <<tw, junk, exc, ops, stream, u, tw2, mem>>

\* one round of the loop: rank += found; ++j; c_rs.rank(j)
StoreAndLoadStep ==
    /\ rk.variant = "store_and_load"
    /\ rk.r.ok /\ rk.r5.ok
    /\ rk.j < size(last.bvec)
    /\ \E r \in DenseOutcomes(rk.p, rk.c_rs, v, rk.j + 1),
          r5 \in SparseOutcomes(rk.p, rk.c_rs5, v, rk.j + 1) :
          rk' = [rk EXCEPT !.j = rk.j + 1,
                           !.rank = rk.rank + (IF found(rk.p, last.bvec, rk.j) THEN 1 ELSE 0),
                           !.r = r, !.r5 = r5]
    /\ UNCHANGED <<tw, v, lst, junk, exc, ops, last, stream, u, tw2, mem>>

NextStoreLoad == StoreAndLoadSetup \/ StoreAndLoadStep

SpecStoreLoad == InitStoreLoad /\ [][NextStoreLoad]_vars

\* C25: at every round of the loop the loaded index, dense or sparse, bound to
\* the unchanged vector, delivers rank(j) and it is the count of the naive
\* scan; its counters are those of the index it was stored from, so it
\* answers as that index does.
LoadedRankIsNaiveScan ==
    rk.variant = "store_and_load" =>
        /\ rk.c_rs = rk.rs /\ rk.c_rs5 = rk.rs5
        /\ rk.r = [ok |-> TRUE, value |-> rk.rank]
        /\ rk.r5 = [ok |-> TRUE, value |-> rk.rank]

\* the part of C25 that concerns the stored form and the dense index
LoadedDenseRankIsNaiveScan ==
    rk.variant = "store_and_load" =>
        /\ rk.c_rs = rk.rs /\ rk.c_rs5 = rk.rs5
        /\ rk.r = [ok |-> TRUE, value |-> rk.rank]
        /\ rk.r5.ok => rk.r5.value = rk.rank

---------------------------------------------------------------------------
(* memory_monitor called by one thread: start, stop, event (creation and
   destruction of the scoped proxy) and record in any order.  An event of the
   stack is the sequence of the usages of its allocations; the proxies alive
   are a stack of their add flags, destroyed in the reverse order of their
   creation; fault is set by a step that calls top() or pop() on an empty
   event stack, and such a step either ends the program or goes on with the
   stack left empty. *)

InitMonitor ==
    /\ NoVectorState
    /\ mem = [variant |-> "monitor", track_usage |-> FALSE, current_usage |-> 0,
              event_stack |-> <<>>, completed |-> 0, proxies |-> <<>>,
              fault |-> FALSE, halted |-> FALSE, calls |-> 0]
    /\ last = [op |-> "none", empty_top |-> FALSE]

MonitorReady == mem.variant = "monitor" /\ ~mem.halted /\ mem.calls < MaxMonOps

\* the program after top() or pop() of an empty stack
Faulted(op) ==
    /\ \E h \in BOOLEAN :
          mem' = [mem EXCEPT !.fault = TRUE, !.halted = h, !.calls = mem.calls + 1]
    /\ last' = [op |-> op, empty_top |-> TRUE]

\* memory_monitor::start()
MonStart ==
    /\ MonitorReady
    /\ mem' = [mem EXCEPT !.track_usage = TRUE, !.completed = 0,
                          !.current_usage = 0, !.event_stack = << <<0>> >>,
                          !.calls = mem.calls + 1]
    /\ last' = [op |-> "start", empty_top |-> FALSE]
    /\ UNCHANGED <<tw, v, lst, junk, exc, ops, stream, rk, u, tw2>>

\* memory_monitor::stop()
MonStop ==
    /\ MonitorReady
    /\ mem' = [mem EXCEPT !.completed = mem.completed + Len(mem.event_stack),
                          !.event_stack = <<>>, !.track_usage = FALSE,
                          !.calls = mem.calls + 1]
    /\ last' = [op |-> "stop", empty_top |-> FALSE]
    /\ UNCHANGED <<tw, v, lst, junk, exc, ops, stream, rk, u, tw2>>

\* memory_monitor::record(delta); elapsed: more than log_granularity has passed
\* since last_event
MonRecord ==
    /\ MonitorReady
    /\ \E d \in Deltas, elapsed \in BOOLEAN :
         LET n   == Len(mem.event_stack)
             top == mem.event_stack[n]
             usage == mem.current_usage + d
         IN IF ~mem.track_usage
            THEN /\ mem' = [mem EXCEPT !.calls = mem.calls + 1]
                 /\ last' = [op |-> "record", empty_top |-> FALSE]
            ELSE IF n = 0 THEN Faulted("record")
            ELSE /\ last' = [op |-> "record", empty_top |-> FALSE]
                 /\ IF elapsed
                    THEN mem' = [mem EXCEPT
                                   !.event_stack = WithTop(mem.event_stack,
                                       top \o <<mem.current_usage, usage>>),
                                   !.current_usage = usage, !.calls = mem.calls + 1]
                    ELSE IF Len(top) # 0
                    THEN mem' = [mem EXCEPT
                                   !.event_stack = WithTop(mem.event_stack,
                                       [top EXCEPT ![Len(top)] = usage]),
                                   !.current_usage = usage, !.calls = mem.calls + 1]
                    ELSE mem' = [mem EXCEPT !.calls = mem.calls + 1]
    /\ UNCHANGED <<tw, v, lst, junk, exc, ops, stream, rk, u, tw2>>

\* auto e = memory_monitor::event(name): mm_event_proxy(name, usage, track_usage)
MonEvent ==
    /\ MonitorReady
    /\ mem' = [mem EXCEPT
                 !.proxies = Append(mem.proxies, mem.track_usage),
                 !.event_stack = IF mem.track_usage
                                 THEN Append(mem.event_stack, <<mem.current_usage>>)
                                 ELSE mem.event_stack,
                 !.calls = mem.calls + 1]
    /\ last' = [op |-> "event", empty_top |-> FALSE]
    /\ UNCHANGED <<tw, v, lst, junk, exc, ops, stream, rk, u, tw2>>

\* ~mm_event_proxy() of the proxy created last
MonProxyDestroy ==
    /\ MonitorReady
    /\ Len(mem.proxies) > 0
    /\ LET n    == Len(mem.event_stack)
           add  == mem.proxies[Len(mem.proxies)]
           rest == SubSeq(mem.proxies, 1, Len(mem.proxies) - 1)
           popped == SubSeq(mem.event_stack, 1, n - 1)
       IN IF ~add
          THEN /\ mem' = [mem EXCEPT !.proxies = rest, !.calls = mem.calls + 1]
               /\ last' = [op |-> "~event", empty_top |-> FALSE]
          ELSE IF n = 0
          THEN /\ \E h \in BOOLEAN :
                     mem' = [mem EXCEPT !.proxies = rest, !.fault = TRUE, !.halted = h,
                                        !.calls = mem.calls + 1]
               /\ last' = [op |-> "~event", empty_top |-> TRUE]
          ELSE /\ mem' = [mem EXCEPT
                            !.proxies = rest,
                            !.completed = mem.completed + 1,
                            !.event_stack =
                                IF n > 1 /\ Len(popped[n - 1]) # 0
                                THEN WithTop(popped, Append(popped[n - 1],
                                                 popped[n - 1][Len(popped[n - 1])]))
                                ELSE popped,
                            !.calls = mem.calls + 1]
               /\ last' = [op |-> "~event", empty_top |-> FALSE]
    /\ UNCHANGED <<tw, v, lst, junk, exc, ops, stream, rk, u, tw2>>

NextMonitor == MonStart \/ MonStop \/ MonRecord \/ MonEvent \/ MonProxyDestroy

SpecMonitor == InitMonitor /\ [][NextMonitor]_vars

\* C27: in any sequence of start, stop, event, destruction of an event proxy
\* and record, no step reads or pops the top of an empty event stack.
TopNeverReadWhenEmpty ==
    mem.variant = "monitor" => ~mem.fault /\ ~last.empty_top

---------------------------------------------------------------------------
\* reserve

\* C28: reserve(c) changes only the capacity: size(), bit_size(), the width
\* and every element are after the call what they were before it, and a
\* request that is not larger than what the vector already holds changes
\* nothing at all.
ReserveKeepsContents ==
    last.op = "reserve" =>
        /\ size(v) = size(last.pre)
        /\ bit_size(v) = bit_size(last.pre)
        /\ v.m_width = last.pre.m_width
        /\ Elements(v) = Elements(last.pre)
        /\ last.cap * last.pre.m_width <= bit_size(last.pre) => v = last.pre

\* the part of C28 that holds: the width is kept, a reserve(0) does nothing,
\* and the elements below both sizes are kept
ReserveKeepsPrefix ==
    last.op = "reserve" =>
        /\ v.m_width = last.pre.m_width
        /\ last.cap = 0 => v = last.pre
        /\ \A i \in 1..Len(Elements(v)) :
              i <= Len(Elements(last.pre)) => Elements(v)[i] = Elements(last.pre)[i]

---------------------------------------------------------------------------
(* Ownership of the buffers: the two vectors of the pair with the copies and
   moves above, swap, resize and the destructor; released is the set of the
   addresses handed back to the allocator (by free or by a realloc that moves
   the buffer), twice tells whether an address was handed back a second time *)

InitOwn ==
    /\ tw \in StaticWidths
    /\ junk \in Junk
    /\ \E w \in (IF tw = 0 THEN RuntimeWidths ELSE {tw}), x \in Vals :
          \E n \in Sizes(set_width(tw, w, tw)) :
             /\ v = int_vector(tw, n, x, w)
             /\ last = [op |-> "int_vector", n |-> n, x |-> x]
    /\ lst = Elements(v)
    /\ exc = "none"
    /\ ops = 0
    /\ stream = <<>>
    /\ rk = NoRank
    /\ u = NoVector
    /\ tw2 = tw
    /\ mem = [pv |-> AddrOf(v, 1), pu |-> 0, next |-> 2, released |-> {},
              twice |-> FALSE]

\* std::swap(v, u): tmp(std::move(v)); v = std::move(u); u = std::move(tmp);
\* tmp is destroyed without a buffer
OwnSwap ==
    /\ PairReady
    /\ u # NoVector
    /\ \E r1 \in {move(NoVector, v)} :
          \E r2 \in {move(r1.source, u)} :
             \E r3 \in {move(r2.source, r1.target)} :
                PairDone(r2.target, r3.target, mem.pu, mem.pv, [op |-> "swap"])

\* v.resize(n): a reallocation may leave the buffer where it is or move it to
\* a new address, and then hands the old address back
OwnResize ==
    /\ PairReady
    /\ \E n \in {0, 1, size(v) + 1}, a \in {mem.pv, mem.next} :
          /\ a = mem.pv \/ (n * v.m_width > v.m_capacity /\ mm_reallocates(v, n * v.m_width))
          /\ \E v2 \in {resize(v, n, Zero)} :
                /\ v2.m_data # NULL => a # 0
                /\ v' = v2
                /\ mem' = [mem EXCEPT
                             !.pv = AddrOf(v2, a), !.next = mem.next + 1,
                             !.released = IF mem.pv # 0 /\ AddrOf(v2, a) # mem.pv
                                          THEN @ \cup {mem.pv} ELSE @,
                             !.twice = @ \/ (mem.pv # 0 /\ AddrOf(v2, a) # mem.pv
                                             /\ mem.pv \in mem.released)]
                /\ lst' = Elements(v2)
                /\ last' = [op |-> "resize", n |-> n]
    /\ ops' = ops + 1
    /\ UNCHANGED <<tw, junk, exc, stream, rk, u, tw2>>

\* ~int_vector() of u: memory_manager::clear frees m_data
OwnDestroy ==
    /\ PairReady
    /\ u # NoVector
    /\ u' = NoVector
    /\ mem' = [mem EXCEPT
                 !.pu = 0, !.next = mem.next + 1,
                 !.released = IF mem.pu # 0 THEN @ \cup {mem.pu} ELSE @,
                 !.twice = @ \/ (mem.pu # 0 /\ mem.pu \in mem.released)]
    /\ last' = [op |-> "~int_vector"]
    /\ ops' = ops + 1
    /\ UNCHANGED <<tw, v, lst, junk, exc, stream, rk, tw2>>

NextOwn ==
    \/ CopyConstruct \/ MoveConstruct \/ CopyAssign \/ MoveAssign
    \/ OwnSwap \/ OwnResize \/ OwnDestroy

SpecOwn == InitOwn /\ [][NextOwn]_vars

\* the addresses of the buffers the live vectors hold
Held == {mem.pv, mem.pu} \ {0}

\* C29: every buffer is released exactly once: no address is handed back
\* twice, no live vector holds a released buffer, no two live vectors hold the
\* same buffer, and a buffer that a vector held before a step is after the
\* step held by a live vector or released (so an assignment to a vector that
\* owns a buffer releases that buffer).
BuffersReleasedOnce ==
    /\ [](~mem.twice /\ Held \cap mem.released = {}
          /\ (mem.pv # 0 => mem.pv # mem.pu))
    /\ [][\A a \in Held : a \in ({mem.pv, mem.pu} \cup mem.released)']_vars

\* the part of C29 that holds: nothing is released twice, nothing released is
\* still held, and no buffer has two owners
NoDoubleRelease ==
    /\ ~mem.twice
    /\ Held \cap mem.released = {}
    /\ mem.pv # 0 => mem.pv # mem.pu

---------------------------------------------------------------------------
(* The width of a vector: construction with any requested width, width(w),
   and load of a stream whose header was not written by serialize *)

\* the widths asked of the constructor: in range, 0, and above 64
ConstructWidths == {0, 5, 64, 65, 255}

\* the width bytes of the headers that are loaded
HeaderWidths == {0, 1, 5, 64, 65, 255}

\* the bit lengths of the headers that are loaded
HeaderSizes == {0, 64, 130}

InitWidth ==
    /\ tw \in StaticWidths
    /\ junk \in Junk
    /\ \E w \in (IF tw = 0 THEN ConstructWidths ELSE {tw}), x \in Vals :
          \E n \in Sizes(set_width(tw, w, tw)) :
             /\ v = int_vector(tw, n, x, w)
             /\ last = [op |-> "int_vector", n |-> n, x |-> x]
    /\ lst = Elements(v)
    /\ exc = "none"
    /\ ops = 0
    /\ stream = <<>>
    /\ rk = NoRank
    /\ u = NoVector
    /\ tw2 = tw
    /\ mem = NoMem

\* v.load(in) of a stream whose header holds the width byte hw and the bit
\* length n, followed by the data words.  bit_resize evaluates n % m_width in
\* a build with assertions, and memory_manager::resize evaluates capacity(),
\* m_capacity / m_width: with m_width == 0 both divide by zero, and the
\* program either stops there or goes on with a quotient of 0.
LoadAnyHeader ==
    /\ Ready
    /\ \E hw \in HeaderWidths, n \in HeaderSizes :
          /\ stream' = <<write_header(n, hw)>> \o [k \in 1..((n + 63) \div 64) |-> {0, 2, 63}]
          /\ last' = [op |-> "load", hw |-> hw, n |-> n, pre |-> v]
          /\ LET v1 == read_header(tw, v, stream')
             IN IF v1.m_width = 0
                THEN \/ /\ v' = [ReadChunks(bit_resize([v1 EXCEPT !.m_width = 1], n),
                                            0, stream') EXCEPT !.m_width = 0]
                        /\ exc' = "none"
                     \/ /\ n > 0
                        /\ v' = v1
                        /\ exc' = "abort"
                ELSE \/ /\ v' = load(tw, v, stream')
                        /\ exc' = "none"
                     \/ /\ bit_resize_asserts(v1, n)
                        /\ v' = v1
                        /\ exc' = "abort"
    /\ lst' = IF v'.m_width \in 1..64 THEN Elements(v') ELSE <<>>
    /\ ops' = ops + 1
    /\ UNCHANGED <<tw, junk, rk, u, tw2, mem>>

NextWidth == Width \/ LoadAnyHeader

SpecWidth == InitWidth /\ [][NextWidth]_vars

\* C30: in every reachable state the element width is in [1, 64]: after
\* construction with any requested width, after width(w) for any w, and after
\* the load of a stream with any header.
WidthInRange == v.m_width \in 1..64

\* the part of C30 that holds: the width is in [1, 64] after construction and
\* after width(w), and after a load into a vector of static width
WidthInRangeUnlessLoaded ==
    (last.op # "load" \/ tw # 0) => v.m_width \in 1..64

=============================================================================
